---- MODULE Spec2Model ----
(***************************************************************************)
(* A state-machine model of the scroll animation library: the six          *)
(* behaviours (StackingCards, VideoScaleOnScroll, ImageReveal,             *)
(* TextExplosion, ParallaxReveal, ProgressNavBlob), the attribute-driven   *)
(* registry (AutoInit.js) and the collaborators they talk to (the          *)
(* scroll-tracking service, the tween engine, the timer queue, the DOM).   *)
(*                                                                         *)
(* The program state is held in the variables below.  Every method of the  *)
(* library is a pure operator from a "world" record (the program state) to *)
(* the world after the call, so that a method can call another one the way *)
(* the code does; an action applies one method, or one step of a           *)
(* collaborator, to the current world.                                     *)
(*                                                                         *)
(* Numbers: scales, progress and fractions are in thousandths (1.2 is      *)
(* 1200), percentages and pixels are integers, times are in milliseconds.  *)
(***************************************************************************)
EXTENDS Integers, Sequences, FiniteSets, TLC

VARIABLES
    scenario,    \* what the page's script does: constructs one behaviour, or runs
                 \* autoInit (fixed by Init)
    els,         \* the document: root elements in document order
    instances,   \* the constructed instances: one record of fields (this.*) each
    stAll,       \* the scroll service's registry: every handle ever created
    inflight,    \* callbacks the scroll service has scheduled for this tick
    crossings,   \* how many enter crossings the scroll service has reported
    timers,      \* pending setTimeout callbacks
    now,         \* the clock, ms
    style,       \* element style/transform values: <<element, property>> -> value
    classes,     \* the set of <<element, class>> pairs present
    tweens,      \* the tween engine's running tweens, in creation order
    dom,         \* children of the text elements: <<element>> -> [text, spans]
    raf,         \* pending requestAnimationFrame callbacks (their owners)
    tweenCalls,  \* history: every gsap.to call made, in order
    lastOp,      \* history: the last library call and whether it raised
    destroyed,   \* history: per instance, how many destroy() calls have returned (2: two or more)
    cycle,       \* history: per instance, the reset() calls made, Len(tweenCalls) at
                 \* the last of them, and the crossings and reveal() calls since
    bindings,    \* history: every new Component(...) that initElement reached
    returned,    \* the list the last autoInit call returned
    runs,        \* history: how many autoInit and initAnimations calls have been made
    supplied,    \* history: the options object the page's script passed to the
                 \* constructor it called (fixed by Init)
    warnings,    \* the console: the data-anim values AutoInit.js warned about
    smooth       \* the smooth-scroll module: lenisInstance (0 for null), the Lenis
                 \* instances made and destroyed, the callbacks on gsap.ticker, and
                 \* history: what the last call returned and what the last tick did

vars == <<scenario, els, instances, stAll, inflight, crossings, timers, now, style, classes,
          tweens, dom, raf, tweenCalls, lastOp, destroyed, cycle, bindings, returned, runs,
          supplied, warnings, smooth>>

-----------------------------------------------------------------------------
(* Bounds of the model.                                                    *)

\* running tweens advance in this many rendered frames
TweenSteps == 2
\* autoInit() calls a page makes
MaxRuns == 2
\* the clock advances on its own up to this many ms
MaxClock == 1
\* reset() calls explored per instance
MaxResets == 1
\* enter crossings the scroll service reports in one run
MaxCrossings == 2
\* callbacks the scroll service may hold scheduled at once
MaxInflight == 1
\* Lenis instances a page creates
MaxLenis == 2

-----------------------------------------------------------------------------
(* Values shared by all behaviours.                                        *)

\* JS null / undefined for an element reference
NULL == <<>>
\* JS null for a handle
NoHandle == 0

\* An element reference: root element e, or a descendant of it.
El(e, part, k) == <<e, part, k>>
Root(e) == El(e, "root", 0)

\* { ...defaults, ...options }
Merge(defaults, options) ==
    [k \in DOMAIN defaults \cup DOMAIN options |->
        IF k \in DOMAIN options THEN options[k] ELSE defaults[k]]

\* r with field k set to v (r.k = v on an object that may lack k)
Put(r, k, v) == [x \in DOMAIN r \cup {k} |-> IF x = k THEN v ELSE r[x]]

\* this.f is a live handle reference (neither undefined nor null)
HasHandle(self, f) == f \in DOMAIN self /\ self[f] # NoHandle

\* this.f is true (neither undefined nor false)
IsTrue(self, f) == f \in DOMAIN self /\ self[f] = TRUE

SeqFilter(s, keep(_)) ==
    LET F[n \in 0..Len(s)] ==
            IF n = 0 THEN <<>>
            ELSE IF keep(s[n]) THEN Append(F[n - 1], s[n]) ELSE F[n - 1]
    IN  F[Len(s)]

\* The program state as one record.
World ==
    [els |-> els, instances |-> instances, stAll |-> stAll, timers |-> timers,
     now |-> now, style |-> style, classes |-> classes, tweens |-> tweens,
     dom |-> dom, raf |-> raf, tweenCalls |-> tweenCalls, bindings |-> bindings,
     returned |-> returned, warnings |-> warnings, threw |-> FALSE]

Commit(w) ==
    /\ els' = w.els
    /\ instances' = w.instances
    /\ stAll' = w.stAll
    /\ timers' = w.timers
    /\ now' = w.now
    /\ style' = w.style
    /\ classes' = w.classes
    /\ tweens' = w.tweens
    /\ dom' = w.dom
    /\ raf' = w.raf
    /\ tweenCalls' = w.tweenCalls
    /\ bindings' = w.bindings
    /\ returned' = w.returned
    /\ warnings' = w.warnings

\* a TypeError propagates out of the method: the rest of it does not run
Throw(w) == [w EXCEPT !.threw = TRUE]

SetField(w, i, f, v) == [w EXCEPT !.instances[i] = Put(@, f, v)]

-----------------------------------------------------------------------------
(* The DOM.                                                                *)

\* document.querySelector('#' + id): the first element with that id
querySelector(w, id) ==
    IF \E e \in DOMAIN w.els : w.els[e].id = id
    THEN Root(CHOOSE e \in DOMAIN w.els :
                /\ w.els[e].id = id
                /\ \A f \in DOMAIN w.els : w.els[f].id = id => e <= f)
    ELSE NULL

\* document.querySelector(selector) for a part of some root's markup: the
\* first in document order
queryPart(w, part) ==
    IF \E e \in DOMAIN w.els : part \in w.els[e].kids
    THEN El(CHOOSE e \in DOMAIN w.els :
                /\ part \in w.els[e].kids
                /\ \A f \in DOMAIN w.els : part \in w.els[f].kids => e <= f,
            part, 0)
    ELSE NULL

\* root.querySelector(selector) for a single descendant the markup may lack
querySub(w, root, part) ==
    IF part \in w.els[root[1]].kids THEN El(root[1], part, 0) ELSE NULL

classListAdd(w, el, c) == [w EXCEPT !.classes = @ \cup {<<el, c>>}]
classListRemove(w, el, c) == [w EXCEPT !.classes = @ \ {<<el, c>>}]

setStyle(w, el, prop, v) == [w EXCEPT !.style = Put(@, <<el, prop>>, v)]

-----------------------------------------------------------------------------
(* The scroll-tracking collaborator (ScrollTrigger).                       *)

\* ScrollTrigger.create({trigger, onXxx}): a new live handle
ST_create(w, owner, trigger, cbs, arg) ==
    [w EXCEPT !.stAll = Append(@,
        [owner |-> owner, trigger |-> trigger, cbs |-> cbs, arg |-> arg,
         killed |-> FALSE])]

\* the handle the last ST_create returned
ST_last(w) == Len(w.stAll)

\* handle.kill()
ST_kill(w, h) == [w EXCEPT !.stAll[h].killed = TRUE]

-----------------------------------------------------------------------------
(* The tween collaborator (gsap).                                          *)

\* gsap.set(target, {prop: v}): writes the value now; a missing target is
\* warned about and nothing is written.  Running tweens are left running.
gsapSet(w, target, prop, v) ==
    IF target = NULL THEN w ELSE setStyle(w, target, prop, v)

\* gsap.to(target, {prop: v, duration, ease}): starts a tween that renders
\* the property on the following frames, as many as its duration lasts.  A
\* missing target is warned about and no tween runs.
gsapTo(w, target, prop, v, frames) ==
    LET logged == [w EXCEPT !.tweenCalls =
                        Append(@, [target |-> target, prop |-> prop, to |-> v])]
    IN  IF target = NULL THEN logged
        ELSE [logged EXCEPT !.tweens =
                Append(@, [target |-> target, prop |-> prop, to |-> v,
                           frames |-> frames, from |-> 0, k |-> 0])]

\* one rendered frame of the running tween t: the start value is read on
\* the first frame, the value is interpolated, and the last frame writes the
\* target value
tweenRender(w, t) ==
    LET from == IF t.k = 0 THEN w.style[<<t.target, t.prop>>] ELSE t.from
        k == t.k + 1
    IN  [setStyle(w, t.target, t.prop, from + ((t.to - from) * k) \div t.frames)
            EXCEPT !.tweens = IF k = t.frames THEN @
                              ELSE Append(@, [t EXCEPT !.from = from, !.k = k])]

\* one frame of the tween engine: every running tween renders, in creation
\* order, and the finished ones are dropped
tweenFrame(w) ==
    LET ts == w.tweens
        F[n \in 0..Len(ts)] ==
            IF n = 0 THEN [w EXCEPT !.tweens = <<>>] ELSE tweenRender(F[n - 1], ts[n])
    IN  F[Len(ts)]

-----------------------------------------------------------------------------
(* ImageReveal.                                                            *)

IR_defaults ==
    [direction |-> "left", startScale |-> 1200, endScale |-> 1000,
     useScrollTrigger |-> TRUE]

\* getRevealProps with the fall-through on the other side: an unrecognised
\* direction slides the revealer to the right
IR_getRevealProps_fallRight(self) ==
    CASE self.options.direction = "left" -> [prop |-> "xPercent", v |-> -100]
      [] self.options.direction = "top" -> [prop |-> "yPercent", v |-> -100]
      [] self.options.direction = "bottom" -> [prop |-> "yPercent", v |-> 100]
      [] OTHER -> [prop |-> "xPercent", v |-> 100]

IR_getRevealProps(self) ==
    CASE self.options.direction = "right" -> [prop |-> "xPercent", v |-> 100]
      [] self.options.direction = "top" -> [prop |-> "yPercent", v |-> -100]
      [] self.options.direction = "bottom" -> [prop |-> "yPercent", v |-> 100]
      [] OTHER -> [prop |-> "xPercent", v |-> -100]

IR_init(w, i) ==
    LET self == w.instances[i] IN
    IF self.revealer = NULL \/ self.image = NULL THEN w
    ELSE LET w1 == gsapSet(w, self.image, "scale", self.options.startScale) IN
         IF self.options.useScrollTrigger
         THEN LET w2 == ST_create(w1, i, self.container, {"onEnter"}, 0)
              IN  SetField(w2, i, "trigger", ST_last(w2))
         ELSE w1

IR_new(w, selector, options) ==
    LET container == querySelector(w, selector)
        i == Len(w.instances) + 1
    IN  IF container = NULL
        THEN [w EXCEPT !.instances =
                Append(@, [kind |-> "ImageReveal", container |-> NULL])]
        ELSE IR_init(
                [w EXCEPT !.instances = Append(@,
                    [kind |-> "ImageReveal",
                     container |-> container,
                     options |-> Merge(IR_defaults, options),
                     revealer |-> querySub(w, container, "revealer"),
                     image |-> querySub(w, container, "image"),
                     trigger |-> NoHandle,
                     hasRevealed |-> FALSE])], i)

\* reveal() without its hasRevealed guard: the variant C1 must reject
IR_reveal_unguarded(w, i) ==
    LET self == w.instances[i]
        w1 == SetField(w, i, "hasRevealed", TRUE)
    IN  IF "options" \notin DOMAIN self THEN Throw(w1)
        ELSE LET p == IR_getRevealProps(self)
                 w2 == gsapTo(w1, self.revealer, p.prop, p.v, TweenSteps)
                 w3 == gsapTo(w2, self.image, "scale", self.options.endScale,
                              TweenSteps + 1)
             IN  classListAdd(w3, self.container, "is-revealed")

\* reveal(): part_003 68-91
IR_reveal(w, i) ==
    LET self == w.instances[i] IN
    IF IsTrue(self, "hasRevealed") THEN w
    ELSE LET w1 == SetField(w, i, "hasRevealed", TRUE) IN
         IF "options" \notin DOMAIN self THEN Throw(w1)
         ELSE LET p == IR_getRevealProps(self)
                  w2 == gsapTo(w1, self.revealer, p.prop, p.v, TweenSteps)
                  w3 == gsapTo(w2, self.image, "scale", self.options.endScale,
                               TweenSteps + 1)
              IN  classListAdd(w3, self.container, "is-revealed")

IR_reset(w, i) ==
    LET self == w.instances[i]
        w1 == SetField(w, i, "hasRevealed", FALSE)
    IN  IF "options" \notin DOMAIN self THEN Throw(w1)
        ELSE LET w2 == gsapSet(w1, self.revealer, "xPercent", 0)
                 w3 == gsapSet(w2, self.revealer, "yPercent", 0)
                 w4 == gsapSet(w3, self.image, "scale", self.options.startScale)
             IN  classListRemove(w4, self.container, "is-revealed")

IR_destroy(w, i) ==
    LET self == w.instances[i] IN
    IF HasHandle(self, "trigger") THEN ST_kill(w, self.trigger) ELSE w

-----------------------------------------------------------------------------
(* The timer queue (setTimeout).                                           *)

\* setTimeout(() => el.classList.add/remove(cls), delay)
setTimeout(w, owner, op, el, cls, delay) ==
    [w EXCEPT !.timers = Append(@,
        [owner |-> owner, op |-> op, el |-> el, cls |-> cls,
         due |-> w.now + delay])]

\* the timer the host runs next: the earliest due, the earliest set among equals
nextTimer(w) ==
    CHOOSE n \in DOMAIN w.timers :
        \A m \in DOMAIN w.timers :
            \/ w.timers[n].due < w.timers[m].due
            \/ (w.timers[n].due = w.timers[m].due /\ n <= m)

\* the host runs timer n's callback
runTimer(w, n) ==
    LET t == w.timers[n]
        w1 == [w EXCEPT
                !.timers = [j \in 1..(Len(@) - 1) |-> IF j < n THEN @[j] ELSE @[j + 1]],
                !.now = IF t.due > @ THEN t.due ELSE @]
    IN  IF t.op = "add" THEN classListAdd(w1, t.el, t.cls)
        ELSE classListRemove(w1, t.el, t.cls)

-----------------------------------------------------------------------------
(* StackingCards.                                                          *)

SC_defaults == [scaleAmount |-> 100, staggerOffset |-> 30, baseTop |-> 32]

\* container.querySelectorAll(cardSelector)
SC_cards(w, container) ==
    [k \in 1..w.els[container[1]].cards |-> El(container[1], "card", k)]

\* the body of cards.forEach without the skip of the last card: a handle
\* for every card
SC_initCard_everyCard(w, i, k) ==
    LET self == w.instances[i]
        card == self.cards[k]
        w1 == setStyle(w, card, "top",
                       self.options.baseTop + (k - 1) * self.options.staggerOffset)
        w2 == setStyle(w1, card, "zIndex", k)
        w3 == ST_create(w2, i, card, {"onUpdate"}, k)
    IN  [w3 EXCEPT !.instances[i].triggers = Append(@, ST_last(w3))]

\* the body of cards.forEach in init, for the card at index k - 1
SC_initCard(w, i, k) ==
    LET self == w.instances[i]
        card == self.cards[k]
        w1 == setStyle(w, card, "top",
                       self.options.baseTop + (k - 1) * self.options.staggerOffset)
        w2 == setStyle(w1, card, "zIndex", k)
    IN  IF k = Len(self.cards) THEN w2
        ELSE LET w3 == ST_create(w2, i, card, {"onUpdate"}, k)
             IN  [w3 EXCEPT !.instances[i].triggers = Append(@, ST_last(w3))]

SC_init(w, i) ==
    LET n == Len(w.instances[i].cards)
        F[k \in 0..n] == IF k = 0 THEN w ELSE SC_initCard(F[k - 1], i, k)
    IN  F[n]

SC_new(w, selector, options) ==
    LET container == querySelector(w, selector)
        i == Len(w.instances) + 1
    IN  IF container = NULL
        THEN [w EXCEPT !.instances =
                Append(@, [kind |-> "StackingCards", container |-> NULL])]
        ELSE SC_init(
                [w EXCEPT !.instances = Append(@,
                    [kind |-> "StackingCards",
                     container |-> container,
                     options |-> Merge(SC_defaults, options),
                     cards |-> SC_cards(w, container),
                     triggers |-> <<>>])], i)

\* onUpdate with the sign of the scale change reversed: the card grows
SC_onUpdate_grow(w, i, k, progress) ==
    LET self == w.instances[i]
    IN  setStyle(w, self.cards[k], "transform",
                 1000 + (progress * self.options.scaleAmount) \div 1000)

\* onUpdate that scales the card down from the scale it has, not from 1
SC_onUpdate_drift(w, i, k, progress) ==
    LET self == w.instances[i]
        from == IF <<self.cards[k], "transform">> \in DOMAIN w.style
                THEN w.style[<<self.cards[k], "transform">>] ELSE 1000
    IN  setStyle(w, self.cards[k], "transform",
                 from - (progress * self.options.scaleAmount) \div 1000)

\* onUpdate that also moves the card's top with the progress
SC_onUpdate_shiftTop(w, i, k, progress) ==
    LET self == w.instances[i]
    IN  setStyle(setStyle(w, self.cards[k], "transform",
                          1000 - (progress * self.options.scaleAmount) \div 1000),
                 self.cards[k], "top", self.options.baseTop + progress)

\* onUpdate of the handle of card k: scale = 1 - progress * scaleAmount
SC_onUpdate(w, i, k, progress) ==
    LET self == w.instances[i]
    IN  setStyle(w, self.cards[k], "transform",
                 1000 - (progress * self.options.scaleAmount) \div 1000)

\* triggers.forEach(kill): every handle in the list, killed
killAll(w, hs) ==
    [w EXCEPT !.stAll =
        [h \in DOMAIN @ |->
            IF \E n \in DOMAIN hs : hs[n] = h THEN [@[h] EXCEPT !.killed = TRUE]
            ELSE @[h]]]

SC_destroy(w, i) ==
    LET self == w.instances[i] IN
    IF "triggers" \notin DOMAIN self THEN Throw(w)
    ELSE SetField(killAll(w, self.triggers), i, "triggers", <<>>)

\* refresh() calls ScrollTrigger.refresh(): positions are recomputed, nothing
\* the model holds changes
SC_refresh(w, i) == w

-----------------------------------------------------------------------------
(* VideoScaleOnScroll.                                                     *)

VS_defaults == [trigger |-> <<>>, startScale |-> 1000, endScale |-> 1300]

\* init: gsap.to(element, {scale, scrollTrigger}) registers one scrubbed
\* handle; this.animation and this.trigger both name it
VS_init(w, i) ==
    LET self == w.instances[i]
        triggerElement == IF self.options.trigger # <<>>
                          THEN querySelector(w, self.options.trigger)
                          ELSE El(self.element[1], "parent", 0)
        w1 == ST_create(w, i, triggerElement, {"scrub"}, "scale")
    IN  SetField(SetField(w1, i, "animation", ST_last(w1)), i, "trigger", ST_last(w1))

VS_new(w, selector, options) ==
    LET element == querySelector(w, selector)
        i == Len(w.instances) + 1
    IN  IF element = NULL
        THEN [w EXCEPT !.instances =
                Append(@, [kind |-> "VideoScaleOnScroll", element |-> NULL])]
        ELSE VS_init(
                [w EXCEPT !.instances = Append(@,
                    [kind |-> "VideoScaleOnScroll",
                     element |-> element,
                     options |-> Merge(VS_defaults, options),
                     trigger |-> NoHandle])], i)

\* one scrubbed render of this.animation at the given progress:
\* gsap.to(element, {scale: endScale, ease: 'none'}) interpolates from the
\* scale the element has when the tween starts (no style of the page sets
\* one: 1) to endScale.  A killed animation renders nothing.
VS_scrub(w, i, progress) ==
    LET self == w.instances[i] IN
    IF w.stAll[self.animation].killed THEN w
    ELSE gsapSet(w, self.element, "scale",
                 1000 + ((self.options.endScale - 1000) * progress) \div 1000)

\* destroy: this.trigger.kill(), then this.animation.kill() (killing a
\* scrubbed tween kills its handle)
VS_destroy(w, i) ==
    LET self == w.instances[i]
        w1 == IF HasHandle(self, "trigger") THEN ST_kill(w, self.trigger) ELSE w
    IN  IF HasHandle(self, "animation") THEN ST_kill(w1, self.animation) ELSE w1

-----------------------------------------------------------------------------
(* ParallaxReveal.                                                         *)

PR_defaults ==
    [useClipPath |-> TRUE, parallaxAmount |-> 100, staggerBlocks |-> TRUE,
     staggerDelay |-> 100]

\* content.querySelectorAll(blocksSelector)
PR_blocks(w, content) ==
    [k \in 1..w.els[content[1]].blocks |-> El(content[1], "block", k)]

PR_init(w, i) ==
    LET self == w.instances[i]
        w1 == IF Len(self.blocks) > 0
              THEN LET c == ST_create(w, i, self.content, {"onEnter"}, 0)
                   IN  SetField(c, i, "trigger", ST_last(c))
              ELSE w
        w2 == IF self.options.useClipPath /\ self.reveal # NULL
              THEN ST_create(w1, i, self.content, {}, "clipPath")
              ELSE w1
    IN  ST_create(w2, i, self.content, {}, "y")

PR_new(w, selector, options) ==
    LET content == querySelector(w, selector)
        i == Len(w.instances) + 1
    IN  IF content = NULL
        THEN [w EXCEPT !.instances =
                Append(@, [kind |-> "ParallaxReveal", content |-> NULL])]
        ELSE PR_init(
                [w EXCEPT !.instances = Append(@,
                    [kind |-> "ParallaxReveal",
                     content |-> content,
                     options |-> Merge(PR_defaults, options),
                     reveal |-> queryPart(w, "reveal"),
                     blocks |-> PR_blocks(w, content),
                     trigger |-> NoHandle])], i)

\* the body of blocks.forEach in animateBlocks, for the block at index k - 1
PR_animateBlock(w, i, k) ==
    LET self == w.instances[i]
    IN  setTimeout(w, i, "add", self.blocks[k], "is-visible",
                   IF self.options.staggerBlocks
                   THEN (k - 1) * self.options.staggerDelay ELSE 0)

\* animateBlocks that reveals the fixed element without the delay
PR_animateBlocks_revealNow(w, i) ==
    LET self == w.instances[i]
        n == Len(self.blocks)
        w0 == IF self.reveal # NULL
              THEN setTimeout(w, i, "add", self.reveal, "is-visible", 0)
              ELSE w
        F[k \in 0..n] == IF k = 0 THEN w0 ELSE PR_animateBlock(F[k - 1], i, k)
    IN  F[n]

PR_animateBlocks(w, i) ==
    LET self == w.instances[i]
        n == Len(self.blocks)
        F[k \in 0..n] == IF k = 0 THEN w ELSE PR_animateBlock(F[k - 1], i, k)
    IN  IF self.reveal # NULL
        THEN setTimeout(F[n], i, "add", self.reveal, "is-visible",
                        n * self.options.staggerDelay + 300)
        ELSE F[n]

\* destroy() that kills this.trigger only: the variant C2 must reject
PR_destroy_triggerOnly(w, i) ==
    LET self == w.instances[i]
    IN  IF HasHandle(self, "trigger") THEN ST_kill(w, self.trigger) ELSE w

\* destroy: this.trigger.kill(), then every live handle of the service
\* whose trigger element is this.content
PR_destroy(w, i) ==
    LET self == w.instances[i]
        w1 == IF HasHandle(self, "trigger") THEN ST_kill(w, self.trigger) ELSE w
    IN  [w1 EXCEPT !.stAll =
            [h \in DOMAIN @ |->
                IF @[h].trigger = self.content THEN [@[h] EXCEPT !.killed = TRUE]
                ELSE @[h]]]

-----------------------------------------------------------------------------
(* ProgressNavBlob.                                                        *)

PNB_defaults ==
    [dotHeight |-> 32, gap |-> 12, padding |-> 16, showDelay |-> 1500]

\* nav.querySelectorAll(dotSelector)
PNB_dots(w, nav) ==
    [k \in 1..Len(w.els[nav[1]].dots) |-> El(nav[1], "dot", k)]

\* document.querySelectorAll('[data-section]'): the dots carry the
\* attribute too, and come first when the nav precedes the page sections
PNB_sections(w, nav) ==
    LET F[e \in 0..Len(w.els)] ==
            IF e = 0 THEN <<>>
            ELSE F[e - 1] \o
                 [k \in 1..Len(w.els[e].dots) |-> El(e, "dot", k)] \o
                 [k \in 1..Len(w.els[e].sections) |-> El(e, "section", k)]
    IN  F[Len(w.els)]

\* el.getAttribute('data-section') / el.dataset.section
PNB_sectionOf(w, el) ==
    IF el[2] = "dot" THEN w.els[el[1]].dots[el[3]]
    ELSE w.els[el[1]].sections[el[3]]

\* the body of sections.forEach in init
PNB_track(w, i, k) ==
    LET self == w.instances[i]
        c == ST_create(w, i, self.sections[k], {"onEnter", "onEnterBack"},
                       PNB_sectionOf(w, self.sections[k]))
    IN  [c EXCEPT !.instances[i].triggers = Append(@, ST_last(c))]

PNB_init(w, i) ==
    LET self == w.instances[i]
        n == Len(self.sections)
        w0 == setTimeout(w, i, "add", self.nav, "is-visible", self.options.showDelay)
        F[k \in 0..n] == IF k = 0 THEN w0 ELSE PNB_track(F[k - 1], i, k)
    IN  IF self.blob = NULL \/ Len(self.dots) = 0 THEN w ELSE F[n]

PNB_new(w, selector, options) ==
    LET nav == querySelector(w, selector)
        i == Len(w.instances) + 1
    IN  IF nav = NULL
        THEN [w EXCEPT !.instances =
                Append(@, [kind |-> "ProgressNavBlob", nav |-> NULL])]
        ELSE PNB_init(
                [w EXCEPT !.instances = Append(@,
                    [kind |-> "ProgressNavBlob",
                     nav |-> nav,
                     options |-> Merge(PNB_defaults, options),
                     blob |-> querySub(w, nav, "blob"),
                     dots |-> PNB_dots(w, nav),
                     sections |-> PNB_sections(w, nav),
                     triggers |-> <<>>])], i)

\* moveBlobTo that leaves the padding out of the offset
PNB_moveBlobTo_noPadding(w, i, index) ==
    LET self == w.instances[i]
        targetTop == index * (self.options.dotHeight + self.options.gap)
        w1 == classListAdd(w, self.blob, "is-moving")
        w2 == setStyle(w1, self.blob, "top", targetTop)
    IN  setTimeout(w2, i, "remove", self.blob, "is-moving", 500)

PNB_moveBlobTo(w, i, index) ==
    LET self == w.instances[i]
        targetTop == self.options.padding
                     + index * (self.options.dotHeight + self.options.gap)
        w1 == classListAdd(w, self.blob, "is-moving")
        w2 == setStyle(w1, self.blob, "top", targetTop)
    IN  setTimeout(w2, i, "remove", self.blob, "is-moving", 500)

\* the body of dots.forEach in setActive, for the dot at index k - 1
PNB_setActiveDot(w, i, k, sectionId) ==
    LET self == w.instances[i]
        isActive == PNB_sectionOf(w, self.dots[k]) = sectionId
    IN  IF isActive
        THEN PNB_moveBlobTo(classListAdd(w, self.dots[k], "is-active"), i, k - 1)
        ELSE classListRemove(w, self.dots[k], "is-active")

PNB_setActive(w, i, sectionId) ==
    LET n == Len(w.instances[i].dots)
        F[k \in 0..n] == IF k = 0 THEN w ELSE PNB_setActiveDot(F[k - 1], i, k, sectionId)
    IN  F[n]

PNB_destroy(w, i) ==
    LET self == w.instances[i] IN
    IF "triggers" \notin DOMAIN self THEN Throw(w)
    ELSE SetField(killAll(w, self.triggers), i, "triggers", <<>>)

-----------------------------------------------------------------------------
(* TextExplosion.                                                          *)

TE_defaults ==
    [holdDuration |-> 350, explosionEnd |-> 850, explosionDistance |-> 400,
     explosionDistanceMax |-> 600, rotationRange |-> 90,
     scaleRange |-> <<2000, 5000>>]

\* section.querySelectorAll(textSelector)
TE_lines(w, section) ==
    [k \in 1..w.els[section[1]].lines |-> El(section[1], "line", k)]

\* el.textContent: the element's own text and that of its spans, one
\* character each
textLength(w, el) == w.dom[el].text + Len(w.dom[el].spans)

\* the spans of the whole document
allSpans(w) == UNION {{w.dom[el].spans[n] : n \in DOMAIN w.dom[el].spans} : el \in DOMAIN w.dom}

\* the numbers of the spans ever created (attached or held in allChars)
spanIds(w) ==
    {sp[3] : sp \in allSpans(w)} \cup
    UNION {{w.instances[j].allChars[m][3] : m \in DOMAIN w.instances[j].allChars} :
            j \in {x \in DOMAIN w.instances : "allChars" \in DOMAIN w.instances[x]}}

\* the part of splitTextIntoChars for one element: its text is emptied
\* (which removes the children it had) and one new span per character is
\* appended to it and pushed on allChars
TE_splitElement(w, i, el) ==
    LET n == textLength(w, el)
        used == spanIds(w)
        base == IF used = {} THEN 0 ELSE CHOOSE x \in used : \A y \in used : y <= x
        made == [k \in 1..n |-> El(el[1], "char", base + k)]
    IN  [w EXCEPT !.dom[el] = [text |-> 0, spans |-> made],
                  !.instances[i].allChars = @ \o made]

TE_splitTextIntoChars(w, i) ==
    LET self == w.instances[i]
        n == Len(self.lines)
        w0 == SetField(w, i, "allChars", <<>>)
        F[k \in 0..n] == IF k = 0 THEN w0 ELSE TE_splitElement(F[k - 1], i, self.lines[k])
    IN  IF self.attribution # NULL THEN TE_splitElement(F[n], i, self.attribution)
        ELSE F[n]


\* Layout: a character box is 2 by 4 px; line k is the k-th row, the
\* attribution the row below the lines; the content box encloses them.
\* getBoundingClientRect() of an element that is not in the document is
\* all zeros.
rowOf(w, el) == IF el[2] = "line" THEN el[3] ELSE w.els[el[1]].lines + 1

getBoundingClientRect(w, el) ==
    IF el[2] = "content"
    THEN LET rows == {p \in DOMAIN w.dom : p[1] = el[1]}
             widest == IF rows = {} THEN 0
                       ELSE CHOOSE x \in {textLength(w, p) : p \in rows} :
                                \A p \in rows : textLength(w, p) <= x
         IN  [left |-> 0, top |-> 0, width |-> 2 * widest,
              height |-> 4 * Cardinality(rows)]
    ELSE IF \E p \in DOMAIN w.dom : \E n \in DOMAIN w.dom[p].spans : w.dom[p].spans[n] = el
    THEN LET p == CHOOSE q \in DOMAIN w.dom :
                    \E n \in DOMAIN w.dom[q].spans : w.dom[q].spans[n] = el
             n == CHOOSE m \in DOMAIN w.dom[p].spans : w.dom[p].spans[m] = el
         IN  [left |-> 2 * (n - 1), top |-> 4 * (rowOf(w, p) - 1),
              width |-> 2, height |-> 4]
    ELSE [left |-> 0, top |-> 0, width |-> 0, height |-> 0]

RECURSIVE isqrtIn(_, _, _)
isqrtIn(n, lo, hi) ==
    IF lo >= hi THEN lo
    ELSE LET mid == (lo + hi + 1) \div 2
         IN  IF mid * mid <= n THEN isqrtIn(n, mid, hi) ELSE isqrtIn(n, lo, mid - 1)

\* Math.sqrt, rounded down
isqrt(n) == isqrtIn(n, 0, 46340)

\* the record calculateExplosionVectors stores for one span; r holds the
\* five values Math.random() returns, in call order, in thousandths.
\* tx, ty are in thousandths of a pixel, tr in thousandths of a degree.
TE_vector(w, self, span, r) ==
    LET rect == getBoundingClientRect(w, self.content)
        centerX == rect.left + rect.width \div 2
        centerY == rect.top + rect.height \div 2
        q == getBoundingClientRect(w, span)
        dx == (q.left + q.width \div 2) - centerX
        dy == (q.top + q.height \div 2) - centerY
        root == isqrt((dx * dx + dy * dy) * 1000000)
        dist == IF root = 0 THEN 1000 ELSE root
        baseDist == self.options.explosionDistance * 1000
                    + r[1] * self.options.explosionDistanceMax
    IN  [el |-> span,
         tx |-> (((dx * 1000000) \div dist) * baseDist) \div 1000 + (r[2] - 500) * 150,
         ty |-> (((dy * 1000000) \div dist) * baseDist) \div 1000 + (r[3] - 500) * 150,
         tr |-> (r[4] - 500) * self.options.rotationRange,
         ts |-> self.options.scaleRange[1]
                + (r[5] * (self.options.scaleRange[2] - self.options.scaleRange[1])) \div 1000]

TE_calculateExplosionVectors(w, i, r) ==
    LET self == w.instances[i] IN
    IF "content" \notin DOMAIN self \/ self.content = NULL THEN w
    ELSE SetField(w, i, "charData",
            [n \in DOMAIN self.allChars |-> TE_vector(w, self, self.allChars[n], r)])

\* applyExplosion's write with an ease that rises and falls back: 4t(1 - t)
TE_applyChar_bounce(w, i, n, progress) ==
    LET c == w.instances[i].charData[n]
        stagger == ((n - 1) % 20) * 10
        raw == ((progress - stagger) * 1000) \div (1000 - stagger)
        t == IF raw < 0 THEN 0 ELSE IF raw > 1000 THEN 1000 ELSE raw
        e == (4 * t * (1000 - t)) \div 1000
        w1 == setStyle(w, c.el, "transform",
                <<(c.tx * e) \div 1000, (c.ty * e) \div 1000, (c.tr * e) \div 1000,
                  1000 + ((c.ts - 1000) * e) \div 1000>>)
    IN  setStyle(w1, c.el, "opacity", 1000 - e)

\* applyExplosion's write with the stagger running the other way: the
\* earlier of twenty characters waits longest
TE_applyChar_reversed(w, i, n, progress) ==
    LET c == w.instances[i].charData[n]
        stagger == (19 - ((n - 1) % 20)) * 10
        raw == ((progress - stagger) * 1000) \div (1000 - stagger)
        t == IF raw < 0 THEN 0 ELSE IF raw > 1000 THEN 1000 ELSE raw
        e == 1000 - ((1000 - t) * (1000 - t) * (1000 - t)) \div 1000000
        w1 == setStyle(w, c.el, "transform",
                <<(c.tx * e) \div 1000, (c.ty * e) \div 1000, (c.tr * e) \div 1000,
                  1000 + ((c.ts - 1000) * e) \div 1000>>)
    IN  setStyle(w1, c.el, "opacity", 1000 - e)

\* applyExplosion's write without the ease: e = t
TE_applyChar_linear(w, i, n, progress) ==
    LET c == w.instances[i].charData[n]
        stagger == ((n - 1) % 20) * 10
        raw == ((progress - stagger) * 1000) \div (1000 - stagger)
        e == IF raw < 0 THEN 0 ELSE IF raw > 1000 THEN 1000 ELSE raw
        w1 == setStyle(w, c.el, "transform",
                <<(c.tx * e) \div 1000, (c.ty * e) \div 1000, (c.tr * e) \div 1000,
                  1000 + ((c.ts - 1000) * e) \div 1000>>)
    IN  setStyle(w1, c.el, "opacity", 1000 - e)

\* the write applyExplosion makes for the character at index n - 1
TE_applyChar(w, i, n, progress) ==
    LET c == w.instances[i].charData[n]
        stagger == ((n - 1) % 20) * 10
        raw == ((progress - stagger) * 1000) \div (1000 - stagger)
        t == IF raw < 0 THEN 0 ELSE IF raw > 1000 THEN 1000 ELSE raw
        e == 1000 - ((1000 - t) * (1000 - t) * (1000 - t)) \div 1000000
        w1 == setStyle(w, c.el, "transform",
                <<(c.tx * e) \div 1000, (c.ty * e) \div 1000, (c.tr * e) \div 1000,
                  1000 + ((c.ts - 1000) * e) \div 1000>>)
    IN  setStyle(w1, c.el, "opacity", 1000 - e)

TE_applyExplosion(w, i, progress) ==
    LET n == Len(w.instances[i].charData)
        F[k \in 0..n] == IF k = 0 THEN w ELSE TE_applyChar(F[k - 1], i, k, progress)
    IN  F[n]

\* onScroll without the hold: the explosion starts at progress 0
TE_onScroll_noHold(w, i, progress) ==
    LET o == w.instances[i].options
        explosionProgress ==
            IF progress <= o.explosionEnd
            THEN (progress * 1000) \div o.explosionEnd
            ELSE 1000
    IN  TE_applyExplosion(w, i, explosionProgress)

\* onScroll without a timeline: the scroll progress is the phase
TE_onScroll_ramp(w, i, progress) == TE_applyExplosion(w, i, progress)

TE_onScroll(w, i, progress) ==
    LET o == w.instances[i].options
        explosionProgress ==
            IF progress <= o.holdDuration THEN 0
            ELSE IF progress <= o.explosionEnd
            THEN ((progress - o.holdDuration) * 1000) \div (o.explosionEnd - o.holdDuration)
            ELSE 1000
    IN  TE_applyExplosion(w, i, explosionProgress)

TE_init(w, i) ==
    LET self == w.instances[i] IN
    IF Len(self.lines) = 0 \/ self.pinWrapper = NULL THEN w
    ELSE LET w1 == TE_splitTextIntoChars(w, i)
             w2 == [w1 EXCEPT !.raf = Append(@, i)]
             w3 == ST_create(w2, i, self.section, {"onRefresh", "onUpdate"}, 0)
         IN  SetField(w3, i, "trigger", ST_last(w3))

TE_new(w, selector, options) ==
    LET section == querySelector(w, selector)
        i == Len(w.instances) + 1
    IN  IF section = NULL
        THEN [w EXCEPT !.instances =
                Append(@, [kind |-> "TextExplosion", section |-> NULL])]
        ELSE TE_init(
                [w EXCEPT !.instances = Append(@,
                    [kind |-> "TextExplosion",
                     section |-> section,
                     options |-> Merge(TE_defaults, options),
                     pinWrapper |-> querySub(w, section, "pinWrapper"),
                     content |-> querySub(w, section, "content"),
                     lines |-> TE_lines(w, section),
                     attribution |-> querySub(w, section, "attribution"),
                     allChars |-> <<>>,
                     charData |-> <<>>,
                     trigger |-> NoHandle])], i)

TE_destroy(w, i) ==
    LET self == w.instances[i]
        w1 == IF HasHandle(self, "trigger")
              THEN SetField(ST_kill(w, self.trigger), i, "trigger", NoHandle)
              ELSE w
    IN  SetField(SetField(w1, i, "allChars", <<>>), i, "charData", <<>>)

-----------------------------------------------------------------------------
(* Strings.  Attribute names, attribute values, ids and registry keys are  *)
(* sequences of one-character strings, so that the code's string           *)
(* operations (startsWith, replace, isNaN, parseFloat) are modelled by     *)
(* what they do to the characters.                                         *)

Lower == <<"a", "b", "c", "d", "e", "f", "g", "h", "i", "j", "k", "l", "m", "n", "o", "p", "q", "r", "s", "t", "u", "v", "w", "x", "y", "z">>
Upper == <<"A", "B", "C", "D", "E", "F", "G", "H", "I", "J", "K", "L", "M", "N", "O", "P", "Q", "R", "S", "T", "U", "V", "W", "X", "Y", "Z">>
Digits == <<"0", "1", "2", "3", "4", "5", "6", "7", "8", "9">>

\* c.toUpperCase()
toUpperCase(c) ==
    IF \E n \in DOMAIN Lower : Lower[n] = c
    THEN Upper[CHOOSE n \in DOMAIN Lower : Lower[n] = c] ELSE c

isLower(c) == \E n \in DOMAIN Lower : Lower[n] = c
isDigit(c) == \E n \in DOMAIN Digits : Digits[n] = c
digitValue(c) == (CHOOSE n \in DOMAIN Digits : Digits[n] = c) - 1
isWhiteSpace(c) == c \in {" ", "\t", "\n"}
DecimalDigits == {Digits[n] : n \in DOMAIN Digits}

\* s.startsWith(prefix)
startsWith(s, prefix) ==
    Len(s) >= Len(prefix) /\ SubSeq(s, 1, Len(prefix)) = prefix

\* s.substring(n): s without its first n characters
dropChars(s, n) == SubSeq(s, n + 1, Len(s))

RECURSIVE camelize(_)
\* s.replace(/-([a-z])/g, (_, letter) => letter.toUpperCase())
camelize(s) ==
    IF s = <<>> THEN <<>>
    ELSE IF s[1] = "-" /\ Len(s) >= 2 /\ isLower(s[2])
    THEN <<toUpperCase(s[2])>> \o camelize(dropChars(s, 2))
    ELSE <<s[1]>> \o camelize(dropChars(s, 1))

RECURSIVE trimStart(_)
trimStart(s) ==
    IF s # <<>> /\ isWhiteSpace(s[1]) THEN trimStart(dropChars(s, 1)) ELSE s

RECURSIVE trimEnd(_)
trimEnd(s) ==
    IF s # <<>> /\ isWhiteSpace(s[Len(s)]) THEN trimEnd(SubSeq(s, 1, Len(s) - 1)) ELSE s

\* JS values: booleans, strings, and numbers (finite ones as num/den with
\* den a power of ten, NaN, and the infinities)
JSBool(b) == [t |-> "boolean", b |-> b]
JSString(s) == [t |-> "string", s |-> s]
NaN == [t |-> "NaN"]
JSInfinity(neg) == [t |-> "Infinity", neg |-> neg]

RECURSIVE JSNumber(_, _)
\* the finite number num/den, written without trailing zeros (and -0 as 0)
JSNumber(num, den) ==
    IF den > 1 /\ num % 10 = 0 THEN JSNumber(num \div 10, den \div 10)
    ELSE [t |-> "number", num |-> num, den |-> den]

RECURSIVE countWhile(_, _, _)
\* how many characters of s, from position n on, are in the set ok
countWhile(s, n, ok) ==
    IF n <= Len(s) /\ s[n] \in ok THEN 1 + countWhile(s, n + 1, ok) ELSE 0

RECURSIVE toInteger(_, _, _)
\* the value of the digits s in the given base, after acc
toInteger(s, base, acc) ==
    IF s = <<>> THEN acc
    ELSE toInteger(dropChars(s, 1), base,
                   acc * base + (CHOOSE v \in 0..15 :
                        \/ (isDigit(s[1]) /\ v = digitValue(s[1]))
                        \/ (\E n \in 1..6 : s[1] \in {Lower[n], Upper[n]} /\ v = 9 + n)))

RECURSIVE pow10(_)
pow10(n) == IF n = 0 THEN 1 ELSE 10 * pow10(n - 1)

Infinity == <<"I", "n", "f", "i", "n", "i", "t", "y">>

\* The longest prefix of s that is a StrDecimalLiteral (sign, digits, point,
\* digits; or sign and Infinity), as [len, value]; len 0 when there is none.
\* Exponent parts are not modelled: no input of the model has one.
scanDecimal(s) ==
    LET signed == s # <<>> /\ s[1] \in {"+", "-"}
        neg == signed /\ s[1] = "-"
        p == IF signed THEN 2 ELSE 1
        ints == countWhile(s, p, DecimalDigits)
        point == p + ints <= Len(s) /\ s[p + ints] = "."
        fracs == IF point THEN countWhile(s, p + ints + 1, DecimalDigits) ELSE 0
        digits == SubSeq(s, p, p + ints - 1) \o SubSeq(s, p + ints + 1, p + ints + fracs)
        mag == toInteger(digits, 10, 0)
        val == JSNumber(IF neg THEN -mag ELSE mag, pow10(fracs))
    IN  IF startsWith(dropChars(s, p - 1), Infinity)
        THEN [len |-> p - 1 + Len(Infinity), value |-> JSInfinity(neg)]
        ELSE IF ints > 0
        THEN [len |-> p - 1 + ints + (IF point THEN 1 + fracs ELSE 0), value |-> val]
        ELSE IF point /\ fracs > 0
        THEN [len |-> p + fracs, value |-> val]
        ELSE [len |-> 0, value |-> NaN]

HexDigits == DecimalDigits \cup {Lower[n] : n \in 1..6} \cup {Upper[n] : n \in 1..6}
BinaryDigits == {"0", "1"}
OctalDigits == {c \in DecimalDigits : digitValue(c) < 8}

\* s as a NonDecimalIntegerLiteral (0x, 0b, 0o), or NaN when it is none
scanNonDecimal(s) ==
    LET body == dropChars(s, 2)
        ok == IF s[2] \in {"x", "X"} THEN HexDigits
              ELSE IF s[2] \in {"b", "B"} THEN BinaryDigits
              ELSE OctalDigits
        base == IF s[2] \in {"x", "X"} THEN 16 ELSE IF s[2] \in {"b", "B"} THEN 2 ELSE 8
    IN  IF /\ Len(s) >= 3
           /\ s[1] = "0"
           /\ s[2] \in {"x", "X", "b", "B", "o", "O"}
           /\ countWhile(body, 1, ok) = Len(body)
        THEN JSNumber(toInteger(body, base, 0), 1)
        ELSE NaN

\* Number(s): the whole trimmed string must be a numeric literal; the
\* empty string is 0
Number(s) ==
    LET str == trimEnd(trimStart(s))
        dec == scanDecimal(str)
    IN  IF str = <<>> THEN JSNumber(0, 1)
        ELSE IF scanNonDecimal(str) # NaN THEN scanNonDecimal(str)
        ELSE IF dec.len = Len(str) THEN dec.value
        ELSE NaN

\* isNaN(s)
isNaN(s) == Number(s) = NaN

\* parseFloat(s): the longest decimal literal the trimmed string starts with
parseFloat(s) == scanDecimal(trimStart(s)).value

-----------------------------------------------------------------------------
(* AutoInit.js: the registry and the attribute parser.                     *)

Str_true == <<"t", "r", "u", "e">>
Str_false == <<"f", "a", "l", "s", "e">>
DataAnim == <<"d", "a", "t", "a", "-", "a", "n", "i", "m">>
DataAnimPrefix == DataAnim \o <<"-">>

\* element.getAttribute(name): the value, or "absent"
hasAttribute(el, name) == \E n \in DOMAIN el.attrs : el.attrs[n].name = name
getAttribute(el, name) ==
    el.attrs[CHOOSE n \in DOMAIN el.attrs : el.attrs[n].name = name].value

\* the coercion parseDataOptions applies to an attribute value
coerce(value) ==
    IF value = Str_true THEN JSBool(TRUE)
    ELSE IF value = Str_false THEN JSBool(FALSE)
    ELSE IF ~isNaN(value) /\ value # <<>> THEN parseFloat(value)
    ELSE JSString(value)

\* the body of the for loop of parseDataOptions, for attribute n
parseAttr(options, attr) ==
    IF startsWith(attr.name, DataAnimPrefix)
    THEN Put(options, camelize(dropChars(attr.name, Len(DataAnimPrefix))),
             coerce(attr.value))
    ELSE options

parseDataOptions(el) ==
    LET F[n \in 0..Len(el.attrs)] ==
            IF n = 0 THEN <<>> ELSE parseAttr(F[n - 1], el.attrs[n])
    IN  F[Len(el.attrs)]

\* a registry whose number 1 names another component: the variant C9 must
\* reject
ANIMATIONS_swapped ==
    (<<"1">> :> [component |-> "VideoScaleOnScroll", name |-> <<"v", "i", "d", "e", "o", "-", "s", "c", "a", "l", "e">>])
    @@ (<<"2">> :> [component |-> "VideoScaleOnScroll", name |-> <<"v", "i", "d", "e", "o", "-", "s", "c", "a", "l", "e">>])
    @@ (<<"3">> :> [component |-> "ImageReveal", name |-> <<"i", "m", "a", "g", "e", "-", "r", "e", "v", "e", "a", "l">>])
    @@ (<<"4">> :> [component |-> "TextExplosion", name |-> <<"t", "e", "x", "t", "-", "e", "x", "p", "l", "o", "s", "i", "o", "n">>])
    @@ (<<"5">> :> [component |-> "ParallaxReveal", name |-> <<"p", "a", "r", "a", "l", "l", "a", "x", "-", "r", "e", "v", "e", "a", "l">>])
    @@ (<<"6">> :> [component |-> "ProgressNavBlob", name |-> <<"p", "r", "o", "g", "r", "e", "s", "s", "-", "n", "a", "v">>])
    @@ (<<"s", "t", "a", "c", "k", "i", "n", "g", "-", "c", "a", "r", "d", "s">> :> [component |-> "StackingCards", name |-> <<"s", "t", "a", "c", "k", "i", "n", "g", "-", "c", "a", "r", "d", "s">>])
    @@ (<<"v", "i", "d", "e", "o", "-", "s", "c", "a", "l", "e">> :> [component |-> "VideoScaleOnScroll", name |-> <<"v", "i", "d", "e", "o", "-", "s", "c", "a", "l", "e">>])
    @@ (<<"i", "m", "a", "g", "e", "-", "r", "e", "v", "e", "a", "l">> :> [component |-> "ImageReveal", name |-> <<"i", "m", "a", "g", "e", "-", "r", "e", "v", "e", "a", "l">>])
    @@ (<<"t", "e", "x", "t", "-", "e", "x", "p", "l", "o", "s", "i", "o", "n">> :> [component |-> "TextExplosion", name |-> <<"t", "e", "x", "t", "-", "e", "x", "p", "l", "o", "s", "i", "o", "n">>])
    @@ (<<"p", "a", "r", "a", "l", "l", "a", "x", "-", "r", "e", "v", "e", "a", "l">> :> [component |-> "ParallaxReveal", name |-> <<"p", "a", "r", "a", "l", "l", "a", "x", "-", "r", "e", "v", "e", "a", "l">>])
    @@ (<<"p", "r", "o", "g", "r", "e", "s", "s", "-", "n", "a", "v">> :> [component |-> "ProgressNavBlob", name |-> <<"p", "r", "o", "g", "r", "e", "s", "s", "-", "n", "a", "v">>])

\* the registry: numbers and names to components
ANIMATIONS ==
    (<<"1">> :> [component |-> "StackingCards", name |-> <<"s", "t", "a", "c", "k", "i", "n", "g", "-", "c", "a", "r", "d", "s">>])
    @@ (<<"2">> :> [component |-> "VideoScaleOnScroll", name |-> <<"v", "i", "d", "e", "o", "-", "s", "c", "a", "l", "e">>])
    @@ (<<"3">> :> [component |-> "ImageReveal", name |-> <<"i", "m", "a", "g", "e", "-", "r", "e", "v", "e", "a", "l">>])
    @@ (<<"4">> :> [component |-> "TextExplosion", name |-> <<"t", "e", "x", "t", "-", "e", "x", "p", "l", "o", "s", "i", "o", "n">>])
    @@ (<<"5">> :> [component |-> "ParallaxReveal", name |-> <<"p", "a", "r", "a", "l", "l", "a", "x", "-", "r", "e", "v", "e", "a", "l">>])
    @@ (<<"6">> :> [component |-> "ProgressNavBlob", name |-> <<"p", "r", "o", "g", "r", "e", "s", "s", "-", "n", "a", "v">>])
    @@ (<<"s", "t", "a", "c", "k", "i", "n", "g", "-", "c", "a", "r", "d", "s">> :> [component |-> "StackingCards", name |-> <<"s", "t", "a", "c", "k", "i", "n", "g", "-", "c", "a", "r", "d", "s">>])
    @@ (<<"v", "i", "d", "e", "o", "-", "s", "c", "a", "l", "e">> :> [component |-> "VideoScaleOnScroll", name |-> <<"v", "i", "d", "e", "o", "-", "s", "c", "a", "l", "e">>])
    @@ (<<"i", "m", "a", "g", "e", "-", "r", "e", "v", "e", "a", "l">> :> [component |-> "ImageReveal", name |-> <<"i", "m", "a", "g", "e", "-", "r", "e", "v", "e", "a", "l">>])
    @@ (<<"t", "e", "x", "t", "-", "e", "x", "p", "l", "o", "s", "i", "o", "n">> :> [component |-> "TextExplosion", name |-> <<"t", "e", "x", "t", "-", "e", "x", "p", "l", "o", "s", "i", "o", "n">>])
    @@ (<<"p", "a", "r", "a", "l", "l", "a", "x", "-", "r", "e", "v", "e", "a", "l">> :> [component |-> "ParallaxReveal", name |-> <<"p", "a", "r", "a", "l", "l", "a", "x", "-", "r", "e", "v", "e", "a", "l">>])
    @@ (<<"p", "r", "o", "g", "r", "e", "s", "s", "-", "n", "a", "v">> :> [component |-> "ProgressNavBlob", name |-> <<"p", "r", "o", "g", "r", "e", "s", "s", "-", "n", "a", "v">>])

\* what every object inherits from Object.prototype: ANIMATIONS[key] finds
\* these too; the function found has a name and no component
ObjectPrototype ==
    (<<"c", "o", "n", "s", "t", "r", "u", "c", "t", "o", "r">> :> [component |-> "undefined", name |-> <<"O", "b", "j", "e", "c", "t">>])

\* ANIMATIONS[animId], or NULL for undefined
lookup(animId) ==
    IF animId \in DOMAIN ANIMATIONS THEN ANIMATIONS[animId]
    ELSE IF animId \in DOMAIN ObjectPrototype THEN ObjectPrototype[animId]
    ELSE NULL

RECURSIVE toString(_)
\* String(n) for a non-negative integer
toString(n) ==
    IF n < 10 THEN <<Digits[n + 1]>>
    ELSE toString(n \div 10) \o <<Digits[(n % 10) + 1]>>

\* `anim-${name}-${Date.now()}-${random}`
generatedId(name, time, rnd) ==
    <<"a", "n", "i", "m", "-">> \o name \o <<"-">> \o toString(time) \o <<"-">> \o rnd

\* The option names the behaviours read, as the model's record fields, with
\* the unit the model keeps each number in (scales and fractions in
\* thousandths, pixels and milliseconds in units).
OptionNames ==
    (<<"s", "c", "a", "l", "e", "A", "m", "o", "u", "n", "t">> :> [field |-> "scaleAmount", unit |-> 1000])
    @@ (<<"u", "s", "e", "C", "l", "i", "p", "P", "a", "t", "h">> :> [field |-> "useClipPath", unit |-> 1])
    @@ (<<"x">> :> [field |-> "x", unit |-> 1])
    @@ (<<"f", "o", "o", "B", "a", "r">> :> [field |-> "fooBar", unit |-> 1])

\* a parsed value as the behaviours of the model hold it
fromJS(key, value) ==
    IF value.t = "boolean" THEN value.b
    ELSE IF value.t = "number" /\ (value.num * OptionNames[key].unit) % value.den = 0
    THEN (value.num * OptionNames[key].unit) \div value.den
    ELSE value

\* the options object as the constructors of the model take it
optionsRecord(options) ==
    [f \in {OptionNames[key].field : key \in DOMAIN options} |->
        LET key == CHOOSE k \in DOMAIN options : OptionNames[k].field = f
        IN  fromJS(key, options[key])]

\* new Component(selector, options)
construct(w, component, selector, options) ==
    CASE component = "StackingCards" -> SC_new(w, selector, options)
      [] component = "VideoScaleOnScroll" -> VS_new(w, selector, options)
      [] component = "ImageReveal" -> IR_new(w, selector, options)
      [] component = "TextExplosion" -> TE_new(w, selector, options)
      [] component = "ParallaxReveal" -> PR_new(w, selector, options)
      [] component = "ProgressNavBlob" -> PNB_new(w, selector, options)
      [] component = "undefined" -> Throw(w)

\* initElement logs the constructor call it made: w is the world after it
logBinding(w, e, animConfig, options, selector) ==
    [w EXCEPT !.bindings = Append(@,
        [el |-> e, animId |-> getAttribute(w.els[e], DataAnim), animConfig |-> animConfig,
         options |-> options, selector |-> selector,
         instance |-> IF w.threw THEN 0 ELSE Len(w.instances)])]

\* the end of initElement: element.id = id when the element had none, then
\* new Component(`#${element.id}`, options)
bindElement(w, e, animConfig, options, id) ==
    logBinding(construct([w EXCEPT !.els[e].id = id], animConfig.component, id,
                         optionsRecord(options)),
               e, animConfig, options, id)

\* the animConfig part of initElement
initConfigured(w, e, animConfig, rnd) ==
    IF animConfig = NULL
    THEN [w EXCEPT !.warnings = Append(@, getAttribute(w.els[e], DataAnim))]
    ELSE bindElement(w, e, animConfig, parseDataOptions(w.els[e]),
                     IF w.els[e].id = <<>> THEN generatedId(animConfig.name, w.now, rnd)
                     ELSE w.els[e].id)

\* initElement(element) for the root element e; rnd is what
\* Math.random().toString(36).substr(2, 9) gives.  A new instance at the
\* end of w.instances is the instance returned; none is null returned.
initElement(w, e, rnd) ==
    IF ~hasAttribute(w.els[e], DataAnim) THEN w
    ELSE IF getAttribute(w.els[e], DataAnim) = <<>> THEN w
    ELSE initConfigured(w, e, lookup(getAttribute(w.els[e], DataAnim)), rnd)

\* container.querySelectorAll('[data-anim]') on the document, in document order
dataAnimElements(w) ==
    LET F[e \in 0..Len(w.els)] ==
            IF e = 0 THEN <<>>
            ELSE IF hasAttribute(w.els[e], DataAnim) THEN Append(F[e - 1], e)
            ELSE F[e - 1]
    IN  F[Len(w.els)]

\* if (instance) instances.push(instance): w is the world before
\* initElement and w1 the world after it
pushInstance(w, w1) ==
    IF Len(w1.instances) > Len(w.instances)
    THEN [w1 EXCEPT !.returned = Append(@, Len(w1.instances))]
    ELSE w1

\* the forEach of autoInit over elements, from instances so far in w.returned
initElements(w, elements, rnds) ==
    LET F[n \in 0..Len(elements)] ==
            IF n = 0 THEN w
            ELSE IF F[n - 1].threw THEN F[n - 1]
            ELSE pushInstance(F[n - 1],
                              initElement(F[n - 1], elements[n], rnds[elements[n]]))
    IN  F[Len(elements)]

\* what autoInit leaves when called in world w and w1 is the world after
\* its forEach: nothing is returned when the forEach raised
autoInitReturn(w, w1) == IF w1.threw THEN [w1 EXCEPT !.returned = w.returned] ELSE w1

\* autoInit(): w.returned is the list returned
autoInit(w, rnds) ==
    autoInitReturn(w, initElements([w EXCEPT !.returned = <<>>], dataAnimElements(w), rnds))

\* container.querySelectorAll('[data-anim="num"], [data-anim="name"]') on
\* the document, in document order
numberElements(w, num, name) ==
    LET F[e \in 0..Len(w.els)] ==
            IF e = 0 THEN <<>>
            ELSE IF /\ hasAttribute(w.els[e], DataAnim)
                    /\ getAttribute(w.els[e], DataAnim) \in {num, name}
                 THEN Append(F[e - 1], e)
                 ELSE F[e - 1]
    IN  F[Len(w.els)]

\* the body of numbers.forEach of initAnimations for the number num
initNumber(w, num, rnds) ==
    IF lookup(toString(num)) = NULL
    THEN [w EXCEPT !.warnings = Append(@, toString(num))]
    ELSE initElements(w, numberElements(w, toString(num), lookup(toString(num)).name),
                      rnds)

\* initAnimations(numbers): w.returned is the list returned
initAnimations(w, numbers, rnds) ==
    LET F[n \in 0..Len(numbers)] ==
            IF n = 0 THEN [w EXCEPT !.returned = <<>>]
            ELSE IF F[n - 1].threw THEN F[n - 1]
            ELSE initNumber(F[n - 1], numbers[n], rnds)
    IN  autoInitReturn(w, F[Len(numbers)])

\* the lists of numbers the page passes to initAnimations
NumberLists == {<<7>>, <<1, 1>>, <<3, 1>>, <<2, 7>>}

-----------------------------------------------------------------------------
(* AutoInit.js: the smooth-scroll singleton.                               *)

\* let lenisInstance = null, before any call; no callback on the ticker
SmoothInit ==
    [lenisInstance |-> 0, made |-> 0, destroyedIds |-> {}, ticker |-> 0,
     ret |-> 0, advanced |-> 0, tickThrew |-> FALSE]

\* initSmoothScroll that does not look at lenisInstance: a new Lenis (and a
\* new ticker callback) on every call
initSmoothScroll_always(s) ==
    [s EXCEPT !.made = @ + 1, !.lenisInstance = s.made + 1, !.ticker = @ + 1,
              !.ret = s.made + 1]

\* initSmoothScroll(): s.ret is the instance returned.  The pages of the
\* model have no a[href^="#"] element, so no click listener is added.
initSmoothScroll(s) ==
    IF s.lenisInstance # 0 THEN [s EXCEPT !.ret = s.lenisInstance]
    ELSE [s EXCEPT !.made = @ + 1, !.lenisInstance = s.made + 1, !.ticker = @ + 1,
                   !.ret = s.made + 1]

\* getLenis(): s.ret is the value returned
getLenis(s) == [s EXCEPT !.ret = s.lenisInstance]

\* destroySmoothScroll()
destroySmoothScroll(s) ==
    IF s.lenisInstance # 0
    THEN [s EXCEPT !.destroyedIds = @ \cup {s.lenisInstance}, !.lenisInstance = 0]
    ELSE s

\* one tick of gsap.ticker: every callback added runs lenisInstance.raf(...)
\* on whatever lenisInstance is at the tick; on null the first callback
\* raises a TypeError
tickerTick(s) ==
    IF s.lenisInstance = 0 THEN [s EXCEPT !.advanced = 0, !.tickThrew = TRUE]
    ELSE [s EXCEPT !.advanced = s.ticker, !.tickThrew = FALSE]

-----------------------------------------------------------------------------
(* The pages the model starts from.                                        *)

\* scroll progress values the service reports, in thousandths
ProgressValues == {0, 200, 350, 500, 850, 990, 1000}

\* values Math.random() returns to one calculateExplosionVectors call, in
\* thousandths: the five draws made per character, at the two ends of the
\* range of Math.random()
RandomDraws == {<<0, 0, 0, 0, 0>>, <<999, 999, 999, 999, 999>>}

\* a root element of the document
Elem(id, kids, cards, blocks, texts, dots, sections) ==
    [id |-> id, attrs |-> <<>>, kids |-> kids, cards |-> cards,
     blocks |-> blocks, lines |-> Len(texts), texts |-> texts,
     attrText |-> 1, dots |-> dots, sections |-> sections]

\* the text elements under root e, with their text
textsOf(el, e) ==
    [p \in {El(e, "line", k) : k \in 1..el.lines}
           \cup (IF "attribution" \in el.kids THEN {El(e, "attribution", 0)} ELSE {})
        |-> [text |-> IF p[2] = "line" THEN el.texts[p[3]] ELSE el.attrText,
             spans |-> <<>>]]

\* the page before any script runs: computed styles are the CSS defaults
Document(elems) ==
    [els |-> elems, instances |-> <<>>, stAll |-> <<>>, timers |-> <<>>, now |-> 0,
     style |-> [k \in {<<El(e, "revealer", 0), "xPercent">> : e \in DOMAIN elems}
                  \cup {<<El(e, "revealer", 0), "yPercent">> : e \in DOMAIN elems}
                  \cup {<<El(e, "image", 0), "scale">> : e \in DOMAIN elems}
                  |-> IF k[2] = "scale" THEN 1000 ELSE 0],
     classes |-> {}, tweens |-> <<>>,
     dom |-> LET F[e \in 0..Len(elems)] ==
                    IF e = 0 THEN <<>> ELSE textsOf(elems[e], e) @@ F[e - 1]
             IN  F[Len(elems)],
     raf |-> <<>>, tweenCalls |-> <<>>, bindings |-> <<>>, returned |-> <<>>,
     supplied |-> <<>>, warnings |-> <<>>, threw |-> FALSE]

Page(el) == Document(<<el>>)

\* the page w, whose script passes options to the constructor it calls
Script(w, options) == [w EXCEPT !.supplied = options]

\* the selectors a caller passes: the id of the page's element, or one
\* that matches nothing
Selectors == {<<"a">>, <<"missing">>}

\* the options the page's script passes to ImageReveal: every direction
\* revealed by the page's own reveal() call, two of them on scroll as well
IR_optionSets ==
    {[direction |-> d, useScrollTrigger |-> FALSE] :
        d \in {"left", "right", "top", "bottom", "diagonal", "Right"}}
    \cup
    {[direction |-> d, useScrollTrigger |-> TRUE] : d \in {"right", "diagonal"}}

IR_pages ==
    {IR_new(Script(Page(Elem(<<"a">>, {"revealer", "image"}, 0, 0, <<>>, <<>>, <<>>)), o),
            <<"a">>, o) :
        o \in IR_optionSets}
    \cup
    {IR_new(Page(Elem(<<"a">>, kids, 0, 0, <<>>, <<>>, <<>>)), sel, <<>>) :
        kids \in SUBSET {"revealer", "image"}, sel \in Selectors}

SC_pages ==
    {SC_new(Page(Elem(<<"a">>, {}, n, 0, <<>>, <<>>, <<>>)), sel, <<>>) :
        n \in 0..3, sel \in Selectors}

VS_pages ==
    {VS_new(Script(Page(Elem(<<"a">>, {}, 0, 0, <<>>, <<>>, <<>>)), [trigger |-> t]),
            sel, [trigger |-> t]) :
        sel \in Selectors, t \in {<<>>, <<"a">>, <<"missing">>}}
    \cup
    {VS_new(Script(Page(Elem(<<"a">>, {}, 0, 0, <<>>, <<>>, <<>>)), o), <<"a">>, o) :
        o \in {[startScale |-> 800], [startScale |-> 800, endScale |-> 1500],
               [endScale |-> 1500]}}

PR_pages ==
    {PR_new(Script(Page(Elem(<<"a">>, kids, 0, n, <<>>, <<>>, <<>>)),
                   [useClipPath |-> c, staggerBlocks |-> g]), sel,
            [useClipPath |-> c, staggerBlocks |-> g]) :
        kids \in SUBSET {"reveal"}, n \in 0..2, sel \in Selectors,
        c \in BOOLEAN, g \in BOOLEAN}

\* two ParallaxReveal instances constructed by the page's script, on the
\* same element or on two elements
PR_pairPages ==
    {PR_new(PR_new(Document(<<Elem(<<"a">>, {}, 0, 1, <<>>, <<>>, <<>>),
                              Elem(<<"b">>, {}, 0, 1, <<>>, <<>>, <<>>)>>),
                   <<"a">>, <<>>), sel, <<>>) :
        sel \in {<<"a">>, <<"b">>}}

PNB_pages ==
    {PNB_new(Page(Elem(<<"a">>, kids, 0, 0, <<>>, dots, <<"hero", "about">>)), sel, <<>>) :
        kids \in SUBSET {"blob"}, dots \in {<<>>, <<"hero", "about">>, <<"hero", "hero">>},
        sel \in Selectors}

TE_pages ==
    {TE_new(Page(Elem(<<"a">>, kids, 0, 0, texts, <<>>, <<>>)), sel, <<>>) :
        kids \in SUBSET {"pinWrapper", "content", "attribution"},
        texts \in {<<>>, <<2>>, <<1, 1>>}, sel \in Selectors}
    \cup
    {TE_new(Page(Elem(<<"a">>, {"pinWrapper", "content"}, 0, 0, <<21>>, <<>>, <<>>)),
            <<"a">>, <<>>)}
    \cup
    {TE_new(Script(Page(Elem(<<"a">>, {"pinWrapper", "content"}, 0, 0, <<2>>, <<>>, <<>>)), o),
            <<"a">>, o) :
        o \in {[holdDuration |-> 850, explosionEnd |-> 350],
               [holdDuration |-> 500, explosionEnd |-> 500]}}

\* an attribute of an element
Attr(name, value) == [name |-> name, value |-> value]

\* an element that has the markup every behaviour needs, with the given
\* id ("" for none) and attributes
Widget(id, attrs) ==
    [Elem(id, {"revealer", "image", "reveal", "blob", "pinWrapper", "content"},
          2, 1, <<1>>, <<"hero">>, <<"hero">>) EXCEPT !.attrs = attrs]

\* StackingCards constructed by the page's script on an element that may
\* carry a data-anim-scale-amount attribute, with and without a
\* scaleAmount of the caller's
SC_optionPages ==
    {SC_new(Script(Page([Elem(<<"a">>, {}, 2, 0, <<>>, <<>>, <<>>) EXCEPT !.attrs = attrs]),
                   options), <<"a">>, options) :
        attrs \in {<<>>, <<Attr(<<"d", "a", "t", "a", "-", "a", "n", "i", "m", "-", "s", "c", "a", "l", "e", "-", "a", "m", "o", "u", "n", "t">>, <<"0", ".", "1", "5">>)>>},
        options \in {<<>>, [scaleAmount |-> 200], [scaleAmount |-> 200, fooBar |-> TRUE]}}
    \cup
    {SC_new(Script(Page(Elem(<<"a">>, {}, 3, 0, <<>>, <<>>, <<>>)),
                   [baseTop |-> 10, staggerOffset |-> 5]), <<"a">>,
            [baseTop |-> 10, staggerOffset |-> 5])}

\* data-anim values: the six numbers, the six names, and values the
\* registry does not have
AnimValues ==
    DOMAIN ANIMATIONS \cup {<<>>, <<"7">>, <<"S", "t", "a", "c", "k", "i", "n", "g", "-", "C", "a", "r", "d", "s">>, <<"c", "o", "n", "s", "t", "r", "u", "c", "t", "o", "r">>}

\* attribute names the pages use besides data-anim
OptionAttrNames == {<<"d", "a", "t", "a", "-", "a", "n", "i", "m", "-", "x">>, <<"d", "a", "t", "a", "-", "a", "n", "i", "m", "-", "f", "o", "o", "-", "b", "a", "r">>}
OtherAttrNames == {<<"d", "a", "t", "a", "-", "s", "e", "c", "t", "i", "o", "n">>, <<"d", "a", "t", "a", "-", "a", "n", "i", "m", "a", "t", "e">>, <<"c", "l", "a", "s", "s">>}

\* attribute values the pages use
AttrValues ==
    {Str_true, Str_false, <<"0", ".", "1", "5">>, <<"4", "0">>, <<"-", "1", ".", "5">>, <<".", "5">>, <<"5", ".">>, <<"+", "2">>, <<"0">>, <<"0", "0", "7">>, <<" ", "7", " ">>, <<"0", "x", "1", "0">>, <<"0", "b", "1", "1">>, <<"0", "o", "1", "7">>, <<"0", "x">>, <<"1", "2", "p", "x">>, <<"1", ".", "2", ".", "3">>, <<"-", "-", "1">>, <<"l", "e", "f", "t">>, <<"T", "R", "U", "E">>, <<" ", " ", " ">>, <<"I", "n", "f", "i", "n", "i", "t", "y">>, <<"-", "I", "n", "f", "i", "n", "i", "t", "y">>, <<>>}

\* the random suffixes Math.random().toString(36).substr(2, 9) gives
RandomSuffixes == {<<"k">>, <<"z", "3">>}

\* the ids the elements of a page have ("" for none)
PageIds == {<<>>, <<"a">>, <<"b">>}

AutoInit_pages ==
    {Document(<<Widget(id, <<Attr(DataAnim, a)>>)>>) : a \in AnimValues, id \in {<<>>, <<"a">>}}
    \cup
    {Document(<<Widget(<<"a">>, <<>>)>>)}
    \cup
    {Document(<<Widget(<<"a">>, <<Attr(DataAnim, <<"1">>), Attr(n, v)>>)>>) :
        n \in OptionAttrNames \cup OtherAttrNames, v \in AttrValues}
    \cup
    {Document(<<Widget(<<"a">>, <<Attr(DataAnim, <<"5">>),
                                  Attr(<<"d", "a", "t", "a", "-", "a", "n", "i", "m", "-", "u", "s", "e", "-", "c", "l", "i", "p", "-", "p", "a", "t", "h">>, v)>>)>>) :
        v \in {Str_true, Str_false}}
    \cup
    {Document(<<Widget(<<"a">>, <<Attr(DataAnim, <<"1">>),
                                  Attr(<<"d", "a", "t", "a", "-", "a", "n", "i", "m", "-", "s", "c", "a", "l", "e", "-", "a", "m", "o", "u", "n", "t">>, v)>>)>>) :
        v \in {<<"0", ".", "1", "5">>, <<"0", ".", "2">>}}
    \cup
    {Document(<<Widget(id1, <<Attr(DataAnim, a1)>>), Widget(id2, <<Attr(DataAnim, a2)>>)>>) :
        a1 \in {<<"1">>, <<"3">>}, a2 \in {<<"1">>, <<"s", "t", "a", "c", "k", "i", "n", "g", "-", "c", "a", "r", "d", "s">>, <<"7">>, <<"6">>,
                                         <<"c", "o", "n", "s", "t", "r", "u", "c", "t", "o", "r">>},
        id1 \in PageIds, id2 \in PageIds}

Pages ==
    [ImageReveal |-> IR_pages, StackingCards |-> SC_pages \cup SC_optionPages,
     VideoScaleOnScroll |-> VS_pages, ParallaxReveal |-> PR_pages \cup PR_pairPages,
     ProgressNavBlob |-> PNB_pages, TextExplosion |-> TE_pages,
     autoInit |-> AutoInit_pages,
     smoothScroll |-> {Document(<<Widget(<<"a">>, <<>>)>>)}]

Init ==
    \E sc \in DOMAIN Pages : \E w \in Pages[sc] :
        /\ scenario = sc
        /\ els = w.els
        /\ instances = w.instances
        /\ stAll = w.stAll
        /\ timers = w.timers
        /\ now = w.now
        /\ style = w.style
        /\ classes = w.classes
        /\ tweens = w.tweens
        /\ dom = w.dom
        /\ raf = w.raf
        /\ tweenCalls = w.tweenCalls
        /\ bindings = w.bindings
        /\ returned = w.returned
        /\ supplied = w.supplied
        /\ warnings = w.warnings
        /\ runs = 0
        /\ smooth = SmoothInit
        /\ inflight = {}
        /\ crossings = 0
        /\ lastOp = [op |-> IF w.instances = <<>> THEN "load" ELSE "new", inst |-> 1,
                     threw |-> w.threw]
        /\ destroyed = [i \in DOMAIN w.instances |-> 0]
        /\ cycle = [i \in DOMAIN w.instances |-> [resets |-> 0, start |-> 0, fired |-> 0]]

-----------------------------------------------------------------------------
(* Actions.                                                                *)

Kind(i) == instances[i].kind

\* a library call op on instance i took the world to w
Called(op, i, w) ==
    /\ Commit(w)
    /\ lastOp' = [op |-> op, inst |-> i, threw |-> w.threw]

\* a crossing, a progress update or a reveal() call of instance i
Fired(i) == cycle' = [cycle EXCEPT ![i].fired = IF @ < 2 THEN @ + 1 ELSE @]

\* The scroll service schedules callback ev of the live handle h.
Schedule ==
    \E h \in DOMAIN stAll : \E ev \in stAll[h].cbs :
      \E p \in (IF ev \in {"onUpdate", "scrub"} THEN ProgressValues ELSE {0}) :
        /\ scenario # "autoInit"
        /\ ~stAll[h].killed
        /\ Cardinality(inflight) < MaxInflight
        /\ ev \in {"onEnter", "onEnterBack"} => crossings < MaxCrossings
        /\ inflight' = inflight \cup {[h |-> h, ev |-> ev, p |-> p]}
        /\ crossings' = IF ev \in {"onEnter", "onEnterBack"} THEN crossings + 1
                        ELSE crossings
        /\ UNCHANGED <<scenario, supplied, smooth, runs, els, instances, stAll, timers, now, style, classes,
                       tweens, dom, raf, tweenCalls, lastOp, destroyed, cycle, bindings,
                       returned, warnings>>

\* The page is scrolled past the enter threshold of the content of a
\* ParallaxReveal that registered no enter handle: the scroll service has
\* no callback to schedule.
CrossUnwatched ==
    /\ scenario = "ParallaxReveal"
    /\ crossings < MaxCrossings
    /\ \E i \in DOMAIN instances :
          instances[i].content # NULL /\ ~HasHandle(instances[i], "trigger")
    /\ crossings' = crossings + 1
    /\ UNCHANGED <<scenario, supplied, smooth, runs, els, instances, stAll, inflight, timers, now,
                   style, classes, tweens, dom, raf, tweenCalls, lastOp, destroyed, cycle,
                   bindings, returned, warnings>>

\* The scroll service delivers a scheduled callback: the handler runs.
Delivered(c, kind, ev) ==
    /\ c \in inflight
    /\ c.ev = ev
    /\ Kind(stAll[c.h].owner) = kind
    /\ inflight' = inflight \ {c}
    /\ UNCHANGED <<scenario, supplied, smooth, runs, crossings, destroyed>>

IR_onEnter ==
    \E c \in inflight :
        /\ Delivered(c, "ImageReveal", "onEnter")
        /\ Called("onEnter", stAll[c.h].owner, IR_reveal(World, stAll[c.h].owner))
        /\ Fired(stAll[c.h].owner)

SC_onUpdateCb ==
    \E c \in inflight :
        /\ Delivered(c, "StackingCards", "onUpdate")
        /\ Called("onUpdate", stAll[c.h].owner,
                  SC_onUpdate(World, stAll[c.h].owner, stAll[c.h].arg, c.p))
        /\ Fired(stAll[c.h].owner)

\* The scroll service scrubs the animation of a VideoScaleOnScroll.
VS_onScrub ==
    \E c \in inflight :
        /\ Delivered(c, "VideoScaleOnScroll", "scrub")
        /\ Called("scrub", stAll[c.h].owner, VS_scrub(World, stAll[c.h].owner, c.p))
        /\ UNCHANGED cycle

PR_onEnter ==
    \E c \in inflight :
        /\ Delivered(c, "ParallaxReveal", "onEnter")
        /\ Called("onEnter", stAll[c.h].owner, PR_animateBlocks(World, stAll[c.h].owner))
        /\ UNCHANGED cycle

PNB_onEnter ==
    \E c \in inflight : \E ev \in {"onEnter", "onEnterBack"} :
        /\ Delivered(c, "ProgressNavBlob", ev)
        /\ Called(ev, stAll[c.h].owner,
                  PNB_setActive(World, stAll[c.h].owner, stAll[c.h].arg))
        /\ UNCHANGED cycle

TE_onUpdate ==
    \E c \in inflight :
        /\ Delivered(c, "TextExplosion", "onUpdate")
        /\ Called("onUpdate", stAll[c.h].owner, TE_onScroll(World, stAll[c.h].owner, c.p))
        /\ Fired(stAll[c.h].owner)

TE_onRefresh ==
    \E c \in inflight : \E r \in RandomDraws :
        /\ Delivered(c, "TextExplosion", "onRefresh")
        /\ Called("onRefresh", stAll[c.h].owner,
                  TE_calculateExplosionVectors(World, stAll[c.h].owner, r))
        /\ UNCHANGED cycle

\* The host runs a requestAnimationFrame callback.
Frame ==
    \E r \in RandomDraws :
        /\ raf # <<>>
        /\ Called("frame", Head(raf),
                  TE_calculateExplosionVectors([World EXCEPT !.raf = Tail(@)], Head(raf), r))
        /\ UNCHANGED <<scenario, supplied, smooth, runs, inflight, crossings, destroyed, cycle>>

\* The host runs the next timer callback.
FireTimer ==
    /\ timers # <<>>
    /\ Called("timer", timers[nextTimer(World)].owner, runTimer(World, nextTimer(World)))
    /\ UNCHANGED <<scenario, supplied, smooth, runs, inflight, crossings, destroyed, cycle>>

\* The tween engine renders one frame of a running tween.
TweenTick ==
        /\ tweens # <<>>
        /\ Called("tween", 0, tweenFrame(World))
        /\ UNCHANGED <<scenario, supplied, smooth, runs, inflight, crossings, destroyed, cycle>>

\* The page calls reveal() on the ImageReveal i.
RevealStep(i) ==
    /\ scenario # "autoInit"
    /\ Kind(i) = "ImageReveal"
    /\ Called("reveal", i, IR_reveal(World, i))
    /\ Fired(i)
    /\ UNCHANGED <<scenario, supplied, smooth, runs, inflight, crossings, destroyed>>

Call_reveal == \E i \in DOMAIN instances : RevealStep(i)

\* The page calls reset() on the ImageReveal i.
ResetStep(i) ==
    /\ scenario # "autoInit"
    /\ Kind(i) = "ImageReveal"
    /\ cycle[i].resets < MaxResets
    /\ Called("reset", i, IR_reset(World, i))
    /\ cycle' = [cycle EXCEPT ![i] =
                    [resets |-> @.resets + 1, start |-> Len(tweenCalls), fired |-> 0]]
    /\ UNCHANGED <<scenario, supplied, smooth, runs, inflight, crossings, destroyed>>

Call_reset == \E i \in DOMAIN instances : ResetStep(i)

\* The page calls refresh() on the StackingCards i.
RefreshStep(i) ==
    /\ scenario # "autoInit"
    /\ Kind(i) = "StackingCards"
    /\ Called("refresh", i, SC_refresh(World, i))
    /\ UNCHANGED <<scenario, supplied, smooth, runs, inflight, crossings, destroyed, cycle>>

Call_refresh == \E i \in DOMAIN instances : RefreshStep(i)

\* destroy() of whichever behaviour instance i is
destroy(w, i) ==
    CASE w.instances[i].kind = "ImageReveal" -> IR_destroy(w, i)
      [] w.instances[i].kind = "StackingCards" -> SC_destroy(w, i)
      [] w.instances[i].kind = "VideoScaleOnScroll" -> VS_destroy(w, i)
      [] w.instances[i].kind = "ParallaxReveal" -> PR_destroy(w, i)
      [] w.instances[i].kind = "ProgressNavBlob" -> PNB_destroy(w, i)
      [] w.instances[i].kind = "TextExplosion" -> TE_destroy(w, i)

\* The page calls destroy() on instance i.
DestroyStep(i) ==
    /\ scenario # "autoInit"
    /\ Called("destroy", i, destroy(World, i))
    /\ destroyed' = IF destroy(World, i).threw THEN destroyed
                    ELSE [destroyed EXCEPT ![i] = IF @ < 2 THEN @ + 1 ELSE @]
    /\ UNCHANGED <<scenario, supplied, smooth, runs, inflight, crossings, cycle>>

Call_destroy == \E i \in DOMAIN instances : DestroyStep(i)

\* The page calls autoInit() on the document.
AutoInitStep(rnds) ==
    /\ scenario = "autoInit"
    /\ runs < MaxRuns
    /\ Called("autoInit", 0, autoInit(World, rnds))
    /\ runs' = runs + 1
    /\ destroyed' = [i \in DOMAIN instances' |->
                        IF i \in DOMAIN destroyed THEN destroyed[i] ELSE 0]
    /\ cycle' = [i \in DOMAIN instances' |->
                    IF i \in DOMAIN cycle THEN cycle[i]
                    ELSE [resets |-> 0, start |-> Len(tweenCalls'), fired |-> 0]]
    /\ UNCHANGED <<scenario, supplied, smooth, inflight, crossings>>

Call_autoInit == \E rnds \in [DOMAIN els -> RandomSuffixes] : AutoInitStep(rnds)

\* The page's script calls initAnimations(numbers) on the document as its
\* first call; autoInit() runs may follow it.
InitAnimationsStep(numbers, rnds) ==
    /\ scenario = "autoInit"
    /\ runs = 0
    /\ Called("initAnimations", 0, initAnimations(World, numbers, rnds))
    /\ runs' = runs + 1
    /\ destroyed' = [i \in DOMAIN instances' |->
                        IF i \in DOMAIN destroyed THEN destroyed[i] ELSE 0]
    /\ cycle' = [i \in DOMAIN instances' |->
                    IF i \in DOMAIN cycle THEN cycle[i]
                    ELSE [resets |-> 0, start |-> Len(tweenCalls'), fired |-> 0]]
    /\ UNCHANGED <<scenario, supplied, smooth, inflight, crossings>>

Call_initAnimations ==
    \E numbers \in NumberLists, rnds \in [DOMAIN els -> RandomSuffixes] :
        InitAnimationsStep(numbers, rnds)

\* The clock advances between two calls of the page or two scroll crossings
\* (Date.now() grows).
Tick ==
    /\ scenario \in {"autoInit", "ProgressNavBlob"}
    /\ now < MaxClock
    /\ now' = now + 1
    /\ UNCHANGED <<scenario, supplied, smooth, runs, els, instances, stAll, inflight, crossings, timers,
                   style, classes, tweens, dom, raf, tweenCalls, lastOp, destroyed,
                   cycle, bindings, returned, warnings>>

\* what a call of the smooth-scroll module leaves alone
SmoothCall(op) ==
    /\ scenario = "smoothScroll"
    /\ lastOp' = [op |-> op, inst |-> 0, threw |-> FALSE]
    /\ UNCHANGED <<scenario, supplied, runs, els, instances, stAll, inflight, crossings,
                   timers, now, style, classes, tweens, dom, raf, tweenCalls, destroyed,
                   cycle, bindings, returned, warnings>>

\* The page calls initSmoothScroll().
Call_initSmoothScroll ==
    /\ smooth.lenisInstance # 0 \/ smooth.made < MaxLenis
    /\ smooth' = initSmoothScroll(smooth)
    /\ SmoothCall("initSmoothScroll")

\* The page calls getLenis().
Call_getLenis ==
    /\ smooth' = getLenis(smooth)
    /\ SmoothCall("getLenis")

\* The page calls destroySmoothScroll().
Call_destroySmoothScroll ==
    /\ smooth' = destroySmoothScroll(smooth)
    /\ SmoothCall("destroySmoothScroll")

\* gsap.ticker ticks: its callbacks run.
TickerTick ==
    /\ smooth.ticker > 0
    /\ smooth' = tickerTick(smooth)
    /\ scenario = "smoothScroll"
    /\ lastOp' = [op |-> "tick", inst |-> 0, threw |-> smooth'.tickThrew]
    /\ UNCHANGED <<scenario, supplied, runs, els, instances, stAll, inflight, crossings,
                   timers, now, style, classes, tweens, dom, raf, tweenCalls, destroyed,
                   cycle, bindings, returned, warnings>>

Next ==
    \/ Call_autoInit
    \/ Call_initSmoothScroll
    \/ Call_getLenis
    \/ Call_destroySmoothScroll
    \/ TickerTick
    \/ Call_initAnimations
    \/ Tick
    \/ Schedule
    \/ CrossUnwatched
    \/ IR_onEnter
    \/ SC_onUpdateCb
    \/ VS_onScrub
    \/ PR_onEnter
    \/ PNB_onEnter
    \/ TE_onUpdate
    \/ TE_onRefresh
    \/ Frame
    \/ FireTimer
    \/ TweenTick
    \/ Call_reveal
    \/ Call_reset
    \/ Call_refresh
    \/ Call_destroy

Spec == Init /\ [][Next]_vars

\* The scroll service delivers every callback it scheduled and the host runs
\* every timer that was set.
FairSpec == Spec /\ WF_vars(PR_onEnter) /\ WF_vars(FireTimer)

-----------------------------------------------------------------------------
(* Properties.                                                             *)

\* an ImageReveal whose container, revealer and image were all found
IR_bound(i) ==
    /\ instances[i].kind = "ImageReveal"
    /\ instances[i].container # NULL
    /\ instances[i].revealer # NULL
    /\ instances[i].image # NULL

\* the gsap.to calls on target made since instance i's last reset()
CallsSinceReset(i, target) ==
    {n \in (cycle[i].start + 1)..Len(tweenCalls) : tweenCalls[n].target = target}

\* C1: a bound ImageReveal starts the revealer tween and the image tween
\* exactly once per armed cycle, however many enter crossings and reveal()
\* calls the cycle sees (none before the first of them), and every cycle's
\* tweens have the same target values.
C1_OneShotPerCycle ==
    \A i \in DOMAIN instances : IR_bound(i) =>
        /\ \A target \in {instances[i].revealer, instances[i].image} :
              Cardinality(CallsSinceReset(i, target))
                = IF cycle[i].fired = 0 THEN 0 ELSE 1
        /\ \A a, b \in DOMAIN tweenCalls :
              tweenCalls[a].target = tweenCalls[b].target => tweenCalls[a] = tweenCalls[b]

\* C1 witness: a second cycle, after reset(), that has seen two triggers
C1_Witness ==
    \E i \in DOMAIN instances :
        /\ IR_bound(i)
        /\ cycle[i].resets = 1
        /\ cycle[i].fired = 2
        /\ Len(tweenCalls) = 4

\* the fields of the program state a lifecycle call may change
progState ==
    <<els, instances, stAll, timers, now, style, classes, tweens, dom, raf, tweenCalls,
      bindings, returned, warnings>>

\* C2: once destroy() has returned, every handle the instance registered
\* with the scroll service (those of its scrubbed tweens included) is killed,
\* and a further destroy() raises nothing and changes no state.
C2_DestroyReleasesHandles ==
    /\ [](\A i \in DOMAIN instances : destroyed[i] >= 1 =>
            \A h \in DOMAIN stAll : stAll[h].owner = i => stAll[h].killed)
    /\ [][\A i \in DOMAIN instances : (destroyed[i] >= 1 /\ DestroyStep(i)) =>
            (UNCHANGED progState /\ ~lastOp'.threw)]_vars

\* C2 witness: destroy() has returned twice on an instance that registered
\* three handles, two of them attached to scrubbed tweens
C2_Witness ==
    /\ 1 \in DOMAIN destroyed
    /\ destroyed[1] = 2
    /\ Len(stAll) = 3
    /\ \E h \in DOMAIN stAll : stAll[h].cbs = {}

\* an instance constructed as a no-op: its root selector matched nothing,
\* or a sub-element its behaviour requires is missing
Inert(i) ==
    LET self == instances[i] IN
    \/ "options" \notin DOMAIN self
    \/ self.kind = "ImageReveal" /\ (self.revealer = NULL \/ self.image = NULL)
    \/ self.kind = "StackingCards" /\ Len(self.cards) = 0
    \/ self.kind = "TextExplosion" /\ (Len(self.lines) = 0 \/ self.pinWrapper = NULL)
    \/ self.kind = "ProgressNavBlob" /\ (self.blob = NULL \/ Len(self.dots) = 0)

\* C3 (as claimed): construction never raises, and on an inert instance
\* destroy(), reset() and refresh() raise nothing and change nothing.
C3_InertInstanceIsSafe ==
    /\ [](lastOp.op = "new" => ~lastOp.threw)
    /\ [][\A i \in DOMAIN instances :
            (Inert(i) /\ (DestroyStep(i) \/ ResetStep(i) \/ RefreshStep(i)))
            => (UNCHANGED progState /\ ~lastOp'.threw)]_vars

\* C4 (as claimed): a callback that was scheduled before destroy() and is
\* delivered after it changes no style, no class and no instance field.
C4_NoCallbackAfterDestroy ==
    [][\A c \in inflight :
        (destroyed[stAll[c.h].owner] >= 1 /\ inflight' = inflight \ {c})
        => UNCHANGED <<style, classes, instances>>]_vars

\* C5 (as claimed): after destroy() no timer of the instance changes the
\* DOM: destroy() cancels them all.
C5_TimersCancelledByDestroy ==
    /\ [](\A i \in DOMAIN instances : destroyed[i] >= 1 =>
            \A n \in DOMAIN timers : timers[n].owner # i)
    /\ [][(timers # <<>> /\ Len(timers') < Len(timers)
            /\ destroyed[timers[nextTimer(World)].owner] >= 1)
          => UNCHANGED <<classes, style>>]_vars

\* C6 (as claimed): after TextExplosion.destroy() none of the spans that
\* splitTextIntoChars inserted is left in the document.
C6_SpansRemovedOnDestroy ==
    \A i \in DOMAIN instances :
        (instances[i].kind = "TextExplosion" /\ destroyed[i] >= 1)
        => \A sp \in allSpans(World) : sp[1] # instances[i].section[1]

\* C7 (as claimed): from reset() until the next reveal the revealer offset,
\* the image scale and the is-revealed class are at their pre-trigger
\* values, also when reset() was called while the reveal tweens ran.
C7_ResetRestoresExactly ==
    \A i \in DOMAIN instances :
        (IR_bound(i) /\ cycle[i].resets >= 1 /\ cycle[i].fired = 0) =>
            /\ style[<<instances[i].revealer, "xPercent">>] = 0
            /\ style[<<instances[i].revealer, "yPercent">>] = 0
            /\ style[<<instances[i].image, "scale">>] = instances[i].options.startScale
            /\ <<instances[i].container, "is-revealed">> \notin classes

\* the live handles of the scroll service whose trigger is root e or an
\* element under it
liveHandlesOn(e) ==
    Cardinality({h \in DOMAIN stAll :
        stAll[h].trigger # NULL /\ stAll[h].trigger[1] = e /\ ~stAll[h].killed})

\* C8 (as claimed): an autoInit() run after the first binds nothing anew:
\* every root element has as many live scroll handles after it as before.
C8_SecondRunBindsNothing ==
    [][(runs >= 1 /\ runs' = runs + 1 /\ lastOp'.op = "autoInit") =>
        \A e \in DOMAIN els : liveHandlesOn(e)' = liveHandlesOn(e)]_vars

\* the Animation Reference table of the README: number n and its name
ReadmeNames ==
    <<<<"s", "t", "a", "c", "k", "i", "n", "g", "-", "c", "a", "r", "d", "s">>,
      <<"v", "i", "d", "e", "o", "-", "s", "c", "a", "l", "e">>,
      <<"i", "m", "a", "g", "e", "-", "r", "e", "v", "e", "a", "l">>,
      <<"t", "e", "x", "t", "-", "e", "x", "p", "l", "o", "s", "i", "o", "n">>,
      <<"p", "a", "r", "a", "l", "l", "a", "x", "-", "r", "e", "v", "e", "a", "l">>,
      <<"p", "r", "o", "g", "r", "e", "s", "s", "-", "n", "a", "v">>>>

\* C9: for each of the six animations the registry resolves the number n
\* and the canonical name to the same descriptor (same component, same
\* name), and every element bound through either key got an instance of
\* that component.
C9_AliasesResolveAlike ==
    \A n \in 1..6 :
        /\ lookup(toString(n)) # NULL
        /\ lookup(toString(n)) = lookup(ReadmeNames[n])
        /\ lookup(toString(n)).name = ReadmeNames[n]
        /\ \A b \in DOMAIN bindings :
              bindings[b].animId \in {toString(n), ReadmeNames[n]} =>
                /\ bindings[b].animConfig = lookup(ReadmeNames[n])
                /\ instances[bindings[b].instance].kind = lookup(toString(n)).component

\* C9 witness: one page bound an element through the number 1 and another
\* through the name stacking-cards, both to StackingCards instances
C9_Witness ==
    \E a, b \in DOMAIN bindings :
        /\ bindings[a].animId = toString(1)
        /\ bindings[b].animId = ReadmeNames[1]
        /\ instances[bindings[a].instance].kind = "StackingCards"
        /\ instances[bindings[b].instance].kind = "StackingCards"

\* the camel-cased key of each data-anim-<kebab-key> attribute of the pages
CamelKeys ==
    (<<"d", "a", "t", "a", "-", "a", "n", "i", "m", "-", "x">> :> <<"x">>)
    @@ (<<"d", "a", "t", "a", "-", "a", "n", "i", "m", "-", "f", "o", "o", "-", "b", "a", "r">> :> <<"f", "o", "o", "B", "a", "r">>)
    @@ (<<"d", "a", "t", "a", "-", "a", "n", "i", "m", "-", "s", "c", "a", "l", "e", "-", "a", "m", "o", "u", "n", "t">> :> <<"s", "c", "a", "l", "e", "A", "m", "o", "u", "n", "t">>)
    @@ (<<"d", "a", "t", "a", "-", "a", "n", "i", "m", "-", "u", "s", "e", "-", "c", "l", "i", "p", "-", "p", "a", "t", "h">> :> <<"u", "s", "e", "C", "l", "i", "p", "P", "a", "t", "h">>)

\* value is a complete numeric literal
isNumericLiteral(value) == trimEnd(trimStart(value)) # <<>> /\ ~isNaN(value)

\* C10 (as claimed): the options parsed for an element have exactly one key
\* per data-anim-<kebab-key> attribute, the camel-cased key, holding true
\* for "true", false for "false" and the number for a complete numeric
\* literal; attributes without the prefix (data-anim among them) add no key.
C10_ParsedOptions ==
    \A b \in DOMAIN bindings :
        LET attrs == els[bindings[b].el].attrs
            options == bindings[b].options
        IN  /\ DOMAIN options =
                  {CamelKeys[attrs[n].name] :
                      n \in {m \in DOMAIN attrs : attrs[m].name \in DOMAIN CamelKeys}}
            /\ \A n \in DOMAIN attrs : attrs[n].name \in DOMAIN CamelKeys =>
                  LET value == attrs[n].value
                      parsed == options[CamelKeys[attrs[n].name]]
                  IN  /\ value = Str_true => parsed = JSBool(TRUE)
                      /\ value = Str_false => parsed = JSBool(FALSE)
                      /\ isNumericLiteral(value) => parsed = Number(value)

\* value is fully parseable as a finite number
isFiniteLiteral(value) == isNumericLiteral(value) /\ Number(value).t = "number"

\* C11 (as claimed): an attribute value that is not "true", not "false" and
\* not fully parseable as a finite number is stored unchanged as a string,
\* and no parsed option is NaN or an infinite number.
C11_OtherValuesStayStrings ==
    \A b \in DOMAIN bindings :
        LET attrs == els[bindings[b].el].attrs
            options == bindings[b].options
        IN  \A n \in DOMAIN attrs : attrs[n].name \in DOMAIN CamelKeys =>
              LET value == attrs[n].value
                  parsed == options[CamelKeys[attrs[n].name]]
              IN  /\ (value \notin {Str_true, Str_false} /\ ~isFiniteLiteral(value))
                        => parsed = JSString(value)
                  /\ parsed.t \notin {"NaN", "Infinity"}

\* the built-in defaults of each behaviour
defaultsOf(kind) ==
    CASE kind = "ImageReveal" -> IR_defaults
      [] kind = "StackingCards" -> SC_defaults
      [] kind = "VideoScaleOnScroll" -> VS_defaults
      [] kind = "ParallaxReveal" -> PR_defaults
      [] kind = "ProgressNavBlob" -> PNB_defaults
      [] kind = "TextExplosion" -> TE_defaults

\* the root element the instance self is bound to
rootOf(self) ==
    CASE self.kind = "ImageReveal" -> self.container
      [] self.kind = "StackingCards" -> self.container
      [] self.kind = "VideoScaleOnScroll" -> self.element
      [] self.kind = "ParallaxReveal" -> self.content
      [] self.kind = "ProgressNavBlob" -> self.nav
      [] self.kind = "TextExplosion" -> self.section

\* the options the data-anim-* attributes of instance i's element declare:
\* those initElement parsed for it, or those its root element carries
declaredOptions(i) ==
    IF \E b \in DOMAIN bindings : bindings[b].instance = i
    THEN optionsRecord(bindings[CHOOSE b \in DOMAIN bindings :
                                    bindings[b].instance = i].options)
    ELSE optionsRecord(parseDataOptions(els[rootOf(instances[i])[1]]))

\* the options object a caller's script supplied for instance i
suppliedOptions(i) ==
    IF \E b \in DOMAIN bindings : bindings[b].instance = i THEN <<>> ELSE supplied

\* C12 (as claimed): every resolved option is the declared attribute's
\* parsed value when the element declares one, else the caller-supplied
\* value when there is one, else the built-in default; and keys the
\* behaviour does not know are kept in the options record.
C12_OptionPrecedence ==
    \A i \in DOMAIN instances : "options" \in DOMAIN instances[i] =>
        LET options == instances[i].options
            defaults == defaultsOf(instances[i].kind)
        IN  /\ DOMAIN options =
                  DOMAIN defaults \cup DOMAIN declaredOptions(i) \cup DOMAIN suppliedOptions(i)
            /\ \A k \in DOMAIN options :
                  options[k] =
                    IF k \in DOMAIN declaredOptions(i) THEN declaredOptions(i)[k]
                    ELSE IF k \in DOMAIN suppliedOptions(i) THEN suppliedOptions(i)[k]
                    ELSE defaults[k]

\* v is one of the registered numbers or names
Registered(v) == \E n \in 1..6 : v \in {toString(n), ReadmeNames[n]}

\* the bindings and the warnings a step added
newBindings == {bindings'[b] : b \in (Len(bindings) + 1)..Len(bindings')}
newWarnings == {warnings'[n] : n \in (Len(warnings) + 1)..Len(warnings')}

\* C13 (as claimed): an autoInit() run does not raise; for an element whose
\* data-anim value is not registered it warns, constructs nothing and
\* leaves the element as it was; and it binds every element whose value is
\* registered.
C13_UnknownIsSkipped ==
    [][(runs' = runs + 1 /\ lastOp'.op = "autoInit") =>
        /\ ~lastOp'.threw
        /\ \A e \in DOMAIN els : hasAttribute(els[e], DataAnim) =>
              IF Registered(getAttribute(els[e], DataAnim))
              THEN \E b \in newBindings : b.el = e /\ b.instance # 0
              ELSE /\ els'[e] = els[e]
                   /\ \A b \in newBindings : b.el # e
                   /\ getAttribute(els[e], DataAnim) \in newWarnings]_vars

\* the root elements that carry a registered data-anim value, in document
\* order
registeredElements ==
    LET F[e \in 0..Len(els)] ==
            IF e = 0 THEN <<>>
            ELSE IF /\ hasAttribute(els[e], DataAnim)
                    /\ Registered(getAttribute(els[e], DataAnim))
                 THEN Append(F[e - 1], e)
                 ELSE F[e - 1]
    IN  F[Len(els)]

\* C14 (as claimed): an autoInit() run returns a list that holds, for each
\* element with a registered data-anim value and in document order, the
\* one instance it constructed for that element, and nothing else.
C14_ReturnsOnePerElement ==
    [][(runs' = runs + 1 /\ lastOp'.op = "autoInit") =>
        /\ ~lastOp'.threw
        /\ Len(returned') = Len(registeredElements)
        /\ \A n \in DOMAIN returned' :
              /\ \E b \in newBindings :
                    b.el = registeredElements[n] /\ b.instance = returned'[n]
              /\ \A m \in DOMAIN returned' : returned'[m] = returned'[n] => m = n]_vars

\* C15 (as claimed): an autoInit() run leaves every id an element already
\* has (given by the page or generated by an earlier run) as it is, gives
\* each id-less element bound to a registered animation an id, and the id
\* it generates for one element is the id of no other element.
C15_IdsKeptAndUnique ==
    [][(runs' = runs + 1 /\ lastOp'.op = "autoInit") =>
        \A e \in DOMAIN els :
            /\ els[e].id # <<>> => els'[e].id = els[e].id
            /\ (/\ els[e].id = <<>>
                /\ hasAttribute(els[e], DataAnim)
                /\ Registered(getAttribute(els[e], DataAnim))) => els'[e].id # <<>>
            /\ (els[e].id = <<>> /\ els'[e].id # <<>>) =>
                  \A f \in DOMAIN els : f # e => els'[f].id # els'[e].id]_vars

\* the last card of the StackingCards instance i
lastCard(i) == instances[i].cards[Len(instances[i].cards)]

\* C16: a progress update p delivered for a card of a StackingCards
\* instance is for a card other than the last and leaves that card's scale
\* at 1 - p * scaleAmount (1.0 at p = 0, and 0.9 at p = 1 when scaleAmount is
\* 0.1); the last card never has a scale assigned.
C16_ScaleFollowsProgress ==
    [][\A c \in inflight :
         (/\ inflight' = inflight \ {c}
          /\ Kind(stAll[c.h].owner) = "StackingCards") =>
            LET self == instances[stAll[c.h].owner]
                card == stAll[c.h].trigger
                scale == style'[<<card, "transform">>]
            IN  /\ card # lastCard(stAll[c.h].owner)
                /\ scale * 1000 = 1000 * 1000 - c.p * self.options.scaleAmount
                /\ c.p = 0 => scale = 1000
                /\ (c.p = 1000 /\ self.options.scaleAmount = 100) => scale = 900
                /\ \A i \in DOMAIN instances :
                      (Kind(i) = "StackingCards" /\ instances[i].container # NULL
                         /\ Len(instances[i].cards) > 0) =>
                        <<lastCard(i), "transform">> \notin DOMAIN style']_vars

\* a three-card stack whose first two cards were both scaled, the second to
\* 0.9 by an update at progress 1 with the default scaleAmount
C16_Witness ==
    /\ scenario = "StackingCards"
    /\ lastOp.op = "onUpdate"
    /\ \E i \in DOMAIN instances :
          /\ Kind(i) = "StackingCards" /\ instances[i].container # NULL
          /\ Len(instances[i].cards) = 3
          /\ instances[i].options.scaleAmount = 100
          /\ <<instances[i].cards[1], "transform">> \in DOMAIN style
          /\ <<instances[i].cards[2], "transform">> \in DOMAIN style
          /\ style[<<instances[i].cards[2], "transform">>] = 900
          /\ <<lastCard(i), "transform">> \notin DOMAIN style

\* the explosion phase the timeline assigns to scroll progress p, in
\* thousandths: 0 through the hold, linear from the hold to the end of the
\* explosion, 1 after it
phaseAt(hold, end, p) ==
    IF p <= hold THEN 0
    ELSE IF p <= end THEN ((p - hold) * 1000) \div (end - hold)
    ELSE 1000

\* the opacity of a character without stagger at explosion phase ph
opacityAt(ph) == ((1000 - ph) * (1000 - ph) * (1000 - ph)) \div 1000000

\* C17: a scroll update at progress p leaves a TextExplosion instance's
\* characters as applyExplosion draws them at phase 0 for p <= holdDuration,
\* at (p - holdDuration) / (explosionEnd - holdDuration) between the two, and
\* at 1 for p > explosionEnd; with 0.35 and 0.85, progress 0.2 draws what 0.0
\* draws and 0.99 what 0.85 draws.
C17_PhaseTimeline ==
    [][\A c \in inflight :
         (/\ inflight' = inflight \ {c}
          /\ c.ev = "onUpdate"
          /\ Kind(stAll[c.h].owner) = "TextExplosion") =>
            LET i == stAll[c.h].owner
                o == instances[i].options
                drawn(q) == TE_applyExplosion(World, i, phaseAt(o.holdDuration, o.explosionEnd, q)).style
            IN  /\ style' = drawn(c.p)
                /\ (o.holdDuration = 350 /\ o.explosionEnd = 850) =>
                      /\ c.p = 200 => style' = drawn(0)
                      /\ c.p = 990 => style' = drawn(850)
                /\ instances[i].charData # <<>> =>
                      style'[<<instances[i].charData[1].el, "opacity">>]
                        = opacityAt(phaseAt(o.holdDuration, o.explosionEnd, c.p))]_vars

\* a TextExplosion instance with vectors whose last update was in the middle
\* of the explosion: its first character is partly faded
C17_Witness ==
    /\ scenario = "TextExplosion"
    /\ lastOp.op = "onUpdate"
    /\ \E i \in DOMAIN instances :
          /\ Kind(i) = "TextExplosion" /\ instances[i].section # NULL
          /\ instances[i].charData # <<>>
          /\ <<instances[i].charData[1].el, "opacity">> \in DOMAIN style
          /\ style[<<instances[i].charData[1].el, "opacity">>] = 343

\* the world with no style written yet: what a first update starts from
Unstyled == [World EXCEPT !.style = <<>>]

\* |n| for an integer n
abs(n) == IF n < 0 THEN 0 - n ELSE n

\* st1 draws the element el no farther out and no fainter than st2 does.
\* Both positions are multiples e * (tx, ty) of one vector with e >= 0, so
\* the magnitudes compare as the components do.
noFarther(st1, st2, el) ==
    /\ abs(st1[<<el, "transform">>][1]) <= abs(st2[<<el, "transform">>][1])
    /\ abs(st1[<<el, "transform">>][2]) <= abs(st2[<<el, "transform">>][2])
    /\ st1[<<el, "opacity">>] >= st2[<<el, "opacity">>]

\* C18: with the vectors an instance holds, what an update at progress p
\* writes for a character is at least as far out and at most as opaque as
\* what an update at any q <= p writes, and at most as far out and at least
\* as opaque as what an update at any q >= p writes.
C18_MonotoneInProgress ==
    [][\A c \in inflight :
         (/\ inflight' = inflight \ {c}
          /\ c.ev = "onUpdate"
          /\ Kind(stAll[c.h].owner) = "TextExplosion") =>
            LET i == stAll[c.h].owner
                o == instances[i].options
            IN  \A q \in ProgressValues : \A n \in DOMAIN instances[i].charData :
                    LET el == instances[i].charData[n].el
                        at == TE_applyChar(Unstyled, i, n,
                                           phaseAt(o.holdDuration, o.explosionEnd, q)).style
                    IN  /\ q <= c.p => noFarther(at, style', el)
                        /\ q >= c.p => noFarther(style', at, el)]_vars

\* an instance whose first character has a horizontal vector and was last
\* drawn in the middle of the explosion, moved and partly faded
C18_Witness ==
    /\ scenario = "TextExplosion"
    /\ lastOp.op = "onUpdate"
    /\ \E i \in DOMAIN instances :
          /\ Kind(i) = "TextExplosion" /\ instances[i].section # NULL
          /\ Len(instances[i].charData) = 2
          /\ instances[i].charData[1].tx # 0
          /\ <<instances[i].charData[1].el, "transform">> \in DOMAIN style
          /\ style[<<instances[i].charData[1].el, "transform">>][1] # 0
          /\ style[<<instances[i].charData[1].el, "opacity">>] \in 1..999

\* clamp((phase - stagger) / (1 - stagger), 0, 1), in thousandths
effectiveT(phase, stagger) ==
    LET raw == ((phase - stagger) * 1000) \div (1000 - stagger)
    IN  IF raw < 0 THEN 0 ELSE IF raw > 1000 THEN 1000 ELSE raw

\* the update delivered in this step is an update of the TextExplosion
\* instance i at progress p
updatesText(c, i, p) ==
    /\ c \in inflight
    /\ inflight' = inflight \ {c}
    /\ c.ev = "onUpdate"
    /\ c.p = p
    /\ stAll[c.h].owner = i
    /\ Kind(i) = "TextExplosion"

\* the character at index n - 1 is drawn at effective t = clamp((phase -
\* stagger) / (1 - stagger), 0, 1) with stagger = ((n - 1) mod 20) * 0.01:
\* its opacity is (1 - t)^3
drawnAtT(i, n, p) ==
    style'[<<instances[i].charData[n].el, "opacity">>]
        = opacityAt(effectiveT(phaseAt(instances[i].options.holdDuration,
                                       instances[i].options.explosionEnd, p),
                               ((n - 1) % 20) * 10))

\* the character at index n - 1 is drawn no less advanced than the one at
\* index m - 1 (t_n >= t_m: the opacity (1 - t)^3 is no higher)
lagsBehind(i, m, n) ==
    style'[<<instances[i].charData[n].el, "opacity">>]
        <= style'[<<instances[i].charData[m].el, "opacity">>]

\* C19 (as claimed): after every update each character is drawn at
\* t = clamp((phase - stagger_i) / (1 - stagger_i), 0, 1), and of any two
\* characters the later-indexed one lags: t_i >= t_j for all i < j.
C19_LaterCharactersLag ==
    [][\A c \in inflight : \A i \in DOMAIN instances : \A p \in ProgressValues :
         updatesText(c, i, p) =>
            \A n \in DOMAIN instances[i].charData :
                /\ drawnAtT(i, n, p)
                /\ \A m \in DOMAIN instances[i].charData :
                      n < m => lagsBehind(i, m, n)]_vars

\* C19 (amended): the stagger is ((index mod 20) * 0.01), so the lag holds
\* between two characters of the same run of twenty indices: t_i >= t_j for
\* i < j with i div 20 = j div 20.
C19_LagWithinTwenty ==
    [][\A c \in inflight : \A i \in DOMAIN instances : \A p \in ProgressValues :
         updatesText(c, i, p) =>
            \A n \in DOMAIN instances[i].charData :
                /\ drawnAtT(i, n, p)
                /\ \A m \in DOMAIN instances[i].charData :
                      (n < m /\ (n - 1) \div 20 = (m - 1) \div 20) => lagsBehind(i, m, n)]_vars

\* a text of twenty-one characters drawn in mid-explosion: the twentieth
\* character is behind the first, and the twenty-first is level with the
\* first again
C19_Witness ==
    /\ scenario = "TextExplosion"
    /\ lastOp.op = "onUpdate"
    /\ \E i \in DOMAIN instances :
          /\ Kind(i) = "TextExplosion" /\ instances[i].section # NULL
          /\ Len(instances[i].charData) = 21
          /\ style[<<instances[i].charData[1].el, "opacity">>] = 343
          /\ style[<<instances[i].charData[20].el, "opacity">>] > 343
          /\ style[<<instances[i].charData[21].el, "opacity">>] = 343

\* the style properties an update of instance i writes
writtenBy(i) ==
    IF Kind(i) = "StackingCards"
    THEN {<<instances[i].cards[k], "transform">> : k \in DOMAIN instances[i].cards}
    ELSE {<<instances[i].charData[n].el, prop>> :
            n \in DOMAIN instances[i].charData, prop \in {"transform", "opacity"}}

\* C20: whatever updates came before, an update at progress p of a
\* StackingCards card or of a TextExplosion instance leaves each transform
\* and opacity it writes at the value a single update at p writes on a
\* page no update has touched, and leaves every other style as it was.
C20_UpdateDependsOnProgressOnly ==
    [][\A c \in inflight :
         (/\ inflight' = inflight \ {c}
          /\ c.ev = "onUpdate"
          /\ Kind(stAll[c.h].owner) \in {"StackingCards", "TextExplosion"}) =>
            LET i == stAll[c.h].owner
                single == IF Kind(i) = "StackingCards"
                          THEN SC_onUpdate(Unstyled, i, stAll[c.h].arg, c.p).style
                          ELSE TE_onScroll(Unstyled, i, c.p).style
            IN  /\ DOMAIN style' = DOMAIN style \cup DOMAIN single
                /\ DOMAIN single \subseteq writtenBy(i)
                /\ \A k \in DOMAIN style' :
                      style'[k] = IF k \in DOMAIN single THEN single[k] ELSE style[k]]_vars

\* a stack whose first card got two updates, the second card none: the
\* first card is back at scale 1.0, as after a single update at progress 0
C20_Witness ==
    /\ scenario = "StackingCards"
    /\ lastOp.op = "onUpdate"
    /\ \E i \in DOMAIN instances :
          /\ Kind(i) = "StackingCards" /\ instances[i].container # NULL
          /\ Len(instances[i].cards) = 3
          /\ cycle[i].fired = 2
          /\ <<instances[i].cards[2], "transform">> \notin DOMAIN style
          /\ <<instances[i].cards[1], "transform">> \in DOMAIN style
          /\ style[<<instances[i].cards[1], "transform">>] = 1000

\* C21: on an instance configured with holdDuration >= explosionEnd an
\* update raises nothing and draws the characters at phase 0 (progress up to
\* holdDuration) or at phase 1 (progress above it), never in between.
C21_InvertedTimelineIsAStep ==
    [][\A c \in inflight : \A i \in DOMAIN instances : \A p \in ProgressValues :
         (/\ updatesText(c, i, p)
          /\ instances[i].options.holdDuration >= instances[i].options.explosionEnd) =>
            /\ ~lastOp'.threw
            /\ style' = TE_applyExplosion(World, i,
                            IF p <= instances[i].options.holdDuration THEN 0 ELSE 1000).style
            /\ \A n \in DOMAIN instances[i].charData :
                  style'[<<instances[i].charData[n].el, "opacity">>] \in {0, 1000}]_vars

\* an instance with holdDuration 0.85 and explosionEnd 0.35, holding
\* vectors, whose last update drew the first character fully exploded
C21_Witness ==
    /\ scenario = "TextExplosion"
    /\ lastOp.op = "onUpdate"
    /\ \E i \in DOMAIN instances :
          /\ Kind(i) = "TextExplosion" /\ instances[i].section # NULL
          /\ instances[i].options.holdDuration > instances[i].options.explosionEnd
          /\ instances[i].charData # <<>>
          /\ <<instances[i].charData[1].el, "opacity">> \in DOMAIN style
          /\ style[<<instances[i].charData[1].el, "opacity">>] = 0

\* the last update of instance i drew it between the hold and the end of
\* the explosion: the unstaggered first character is partly faded
midGesture(i) ==
    /\ Kind(i) = "TextExplosion" /\ instances[i].section # NULL
    /\ instances[i].charData # <<>>
    /\ <<instances[i].charData[1].el, "opacity">> \in DOMAIN style
    /\ style[<<instances[i].charData[1].el, "opacity">>] \in 1..999

\* C22 (as claimed): a refresh signal delivered while the last update's
\* progress lies between holdDuration and explosionEnd leaves the vectors
\* (charData) of the instance as they are.
C22_NoRecomputeMidGesture ==
    [][\A i \in DOMAIN instances :
         (/\ midGesture(i)
          /\ \E c \in inflight :
                inflight' = inflight \ {c} /\ c.ev = "onRefresh" /\ stAll[c.h].owner = i) =>
            instances'[i].charData = instances[i].charData]_vars

\* the revealer's target for each direction the options document
revealTargets ==
    [right |-> <<"xPercent", 100>>, top |-> <<"yPercent", -100>>,
     bottom |-> <<"yPercent", 100>>, left |-> <<"xPercent", -100>>]

\* C23: every tween a bound ImageReveal starts on its revealer goes to
\* xPercent 100 for direction 'right', yPercent -100 for 'top', yPercent 100
\* for 'bottom', xPercent -100 for 'left', and to the 'left' target for any
\* other direction value.
C23_DirectionSelectsTarget ==
    \A i \in DOMAIN instances : IR_bound(i) =>
        \A n \in DOMAIN tweenCalls :
            tweenCalls[n].target = instances[i].revealer =>
                <<tweenCalls[n].prop, tweenCalls[n].to>>
                    = IF instances[i].options.direction \in DOMAIN revealTargets
                      THEN revealTargets[instances[i].options.direction]
                      ELSE revealTargets["left"]

\* an instance with the unrecognised direction 'diagonal' that has revealed:
\* its revealer tween goes to xPercent -100
C23_Witness ==
    \E i \in DOMAIN instances :
        /\ IR_bound(i)
        /\ instances[i].options.direction = "diagonal"
        /\ \E n \in DOMAIN tweenCalls :
              /\ tweenCalls[n].target = instances[i].revealer
              /\ tweenCalls[n].prop = "xPercent"
              /\ tweenCalls[n].to = -100

\* this step is an enter crossing of the ParallaxReveal instance i
entersParallax(i) ==
    /\ \E c \in inflight :
          inflight' = inflight \ {c} /\ c.ev = "onEnter" /\ stAll[c.h].owner = i
    /\ Kind(i) = "ParallaxReveal"

\* the timer the crossing of this step sets for the block at index k - 1
blockTimer(k) == timers'[Len(timers) + k]

\* the crossing of this step sets one is-visible timer per block of
\* instance i, in index order, and every block's timer is due before the
\* reveal target's, which is due 300 ms after blocks * staggerDelay
timersInOrder(i) ==
    LET self == instances[i]
        n == Len(self.blocks)
    IN  /\ Len(timers') = Len(timers) + n + (IF self.reveal # NULL THEN 1 ELSE 0)
        /\ \A k \in 1..n :
              /\ blockTimer(k).el = self.blocks[k]
              /\ blockTimer(k).op = "add" /\ blockTimer(k).cls = "is-visible"
        /\ self.reveal # NULL =>
              /\ timers'[Len(timers')].el = self.reveal
              /\ timers'[Len(timers')].due = now + n * self.options.staggerDelay + 300
              /\ \A k \in 1..n : blockTimer(k).due < timers'[Len(timers')].due

\* no reveal target is visible while a block of its instance is not
revealAfterBlocks ==
    \A i \in DOMAIN instances :
        (Kind(i) = "ParallaxReveal" /\ instances[i].content # NULL
            /\ instances[i].reveal # NULL
            /\ <<instances[i].reveal, "is-visible">> \in classes) =>
        \A k \in DOMAIN instances[i].blocks :
            <<instances[i].blocks[k], "is-visible">> \in classes

\* C24 (as claimed): on an enter crossing the blocks are made visible in
\* index order, each staggerDelay after the one before, whether staggerBlocks
\* is true or false, and the reveal target after every block.
C24_BlocksSpacedThenReveal ==
    /\ []revealAfterBlocks
    /\ [][\A i \in DOMAIN instances : entersParallax(i) =>
            /\ timersInOrder(i)
            /\ \A k \in DOMAIN instances[i].blocks :
                  blockTimer(k).due = now + (k - 1) * instances[i].options.staggerDelay]_vars

\* C24 (amended): the blocks are spaced by staggerDelay when staggerBlocks
\* is true and are all due at the crossing, in index order, when it is
\* false; in both cases the reveal target is made visible
\* blocks * staggerDelay + 300 ms after the crossing, after every block.
C24_BlocksThenReveal ==
    /\ []revealAfterBlocks
    /\ [][\A i \in DOMAIN instances : entersParallax(i) =>
            /\ timersInOrder(i)
            /\ \A k \in DOMAIN instances[i].blocks :
                  blockTimer(k).due = now + (IF instances[i].options.staggerBlocks
                                             THEN (k - 1) * instances[i].options.staggerDelay
                                             ELSE 0)]_vars

\* an instance with two blocks and staggerBlocks false after its crossing:
\* both blocks and then the reveal target became visible, 500 ms later
C24_Witness ==
    \E i \in DOMAIN instances :
        /\ Kind(i) = "ParallaxReveal" /\ instances[i].content # NULL
        /\ instances[i].reveal # NULL
        /\ ~instances[i].options.staggerBlocks
        /\ Len(instances[i].blocks) = 2
        /\ <<instances[i].blocks[1], "is-visible">> \in classes
        /\ <<instances[i].blocks[2], "is-visible">> \in classes
        /\ <<instances[i].reveal, "is-visible">> \in classes
        /\ now = 500

\* this step delivers the enter or enter-back crossing c to the
\* ProgressNavBlob instance i
entersSection(c, i) ==
    /\ inflight' = inflight \ {c}
    /\ c.ev \in {"onEnter", "onEnterBack"}
    /\ stAll[c.h].owner = i
    /\ Kind(i) = "ProgressNavBlob"

\* the dots of instance i whose data-section is id, by position (from 1)
matchingDots(i, id) ==
    {k \in DOMAIN instances[i].dots : PNB_sectionOf(World, instances[i].dots[k]) = id}

\* C25: a crossing into section id leaves is-active on exactly the dots
\* whose data-section is id; when a dot matches, the blob's top is
\* padding + index * (dotHeight + gap) for a matching dot's index, and when
\* none matches the blob stays where it was.
C25_SetActiveMarksAndMoves ==
    [][\A i \in DOMAIN instances : \A c \in inflight :
          entersSection(c, i) =>
            LET self == instances[i]
                id == stAll[c.h].arg
                blobTop == <<self.blob, "top">>
            IN  /\ \A k \in DOMAIN self.dots :
                      <<self.dots[k], "is-active">> \in classes' <=> k \in matchingDots(i, id)
                /\ matchingDots(i, id) # {} =>
                      \E k \in matchingDots(i, id) :
                          style'[blobTop] = self.options.padding
                              + (k - 1) * (self.options.dotHeight + self.options.gap)
                /\ matchingDots(i, id) = {} =>
                      /\ blobTop \in DOMAIN style' <=> blobTop \in DOMAIN style
                      /\ blobTop \in DOMAIN style => style'[blobTop] = style[blobTop]
                      /\ timers' = timers]_vars

\* the second section was entered last: its dot alone is active and the
\* blob stands at 16 + 1 * (32 + 12) = 60
C25_Witness ==
    /\ scenario = "ProgressNavBlob"
    /\ lastOp.op \in {"onEnter", "onEnterBack"}
    /\ \E i \in DOMAIN instances :
          /\ Kind(i) = "ProgressNavBlob" /\ instances[i].nav # NULL
          /\ Len(instances[i].dots) = 2
          /\ <<instances[i].dots[2], "is-active">> \in classes
          /\ <<instances[i].dots[1], "is-active">> \notin classes
          /\ <<instances[i].blob, "top">> \in DOMAIN style
          /\ style[<<instances[i].blob, "top">>] = 60

\* C26 (as claimed): from a move of the blob until that move's 500 ms have
\* elapsed, the blob carries is-moving, also when another move started in
\* between: while a removal set by some move is still ahead, the class is
\* on the blob.
C26_MovingHeldForFullDuration ==
    \A n \in DOMAIN timers :
        (/\ timers[n].op = "remove" /\ timers[n].cls = "is-moving"
         /\ timers[n].due > now) =>
            <<timers[n].el, "is-moving">> \in classes

\* this step scrubs the live animation of the VideoScaleOnScroll instance i
\* to the progress of c
scrubs(c, i) ==
    /\ inflight' = inflight \ {c}
    /\ c.ev = "scrub"
    /\ stAll[c.h].owner = i
    /\ ~stAll[c.h].killed
    /\ Kind(i) = "VideoScaleOnScroll"

\* C27 (as claimed): a scrub at progress p leaves the element's scale at
\* startScale + p * (endScale - startScale): the configured startScale at
\* progress 0, endScale at progress 1, for every configured startScale.
C27_ScaleFromStartToEnd ==
    [][\A i \in DOMAIN instances : \A c \in inflight :
         scrubs(c, i) =>
            LET o == instances[i].options
            IN  style'[<<instances[i].element, "scale">>] * 1000
                    = o.startScale * 1000 + c.p * (o.endScale - o.startScale)]_vars

\* C28 (as claimed): destroy() of instance i leaves every other instance's
\* fields and every handle another instance registered as they were, also
\* when the two instances are bound to the same element.
C28_DestroyOwnHandlesOnly ==
    [][\A i \in DOMAIN instances : (lastOp'.op = "destroy" /\ DestroyStep(i)) =>
          \A j \in DOMAIN instances : j # i =>
              /\ instances'[j] = instances[j]
              /\ \A h \in DOMAIN stAll : stAll[h].owner = j => stAll'[h] = stAll[h]]_vars

\* the step is the call initAnimations(numbers)
callsInitAnimations(numbers) ==
    /\ lastOp'.op = "initAnimations"
    /\ \E rnds \in [DOMAIN els -> RandomSuffixes] : InitAnimationsStep(numbers, rnds)

\* the positions the step added to the bindings
newBound == (Len(bindings) + 1)..Len(bindings')

\* C29 (as claimed): initAnimations(numbers) constructs an instance only
\* for an element whose data-anim is a listed number or that number's name,
\* at most one instance per such element in one call, and for a number
\* that is not registered it warns and constructs nothing.
C29_ListedOncePerElement ==
    [][\A numbers \in NumberLists : callsInitAnimations(numbers) =>
        /\ \A x \in newBound :
              /\ bindings'[x].instance # 0
              /\ \E n \in DOMAIN numbers :
                    /\ numbers[n] \in 1..6
                    /\ getAttribute(els[bindings'[x].el], DataAnim)
                          \in {toString(numbers[n]), ReadmeNames[numbers[n]]}
        /\ \A x, y \in newBound : bindings'[x].el = bindings'[y].el => x = y
        /\ \A n \in DOMAIN numbers : numbers[n] \notin 1..6 =>
              /\ toString(numbers[n]) \in newWarnings
              /\ (\A m \in DOMAIN numbers : numbers[m] \notin 1..6) =>
                    instances' = instances]_vars

\* the handles instance i registered with the scroll service
registeredBy(i) == {h \in DOMAIN stAll : stAll[h].owner = i}

\* the handles in the triggers list of the StackingCards i
listed(i) == {instances[i].triggers[n] : n \in DOMAIN instances[i].triggers}

\* C30: a StackingCards instance on a container with N cards has registered
\* exactly max(N - 1, 0) handles (none with no cards, none when it found no
\* container); in every reachable state its triggers list holds, once
\* each, exactly the handles it registered that are not killed, and the
\* list is empty once destroy() has returned.
C30_TriggersAreLiveHandles ==
    \A i \in DOMAIN instances : Kind(i) = "StackingCards" =>
        IF instances[i].container = NULL THEN registeredBy(i) = {}
        ELSE LET N == els[instances[i].container[1]].cards IN
             /\ Len(instances[i].cards) = N
             /\ Cardinality(registeredBy(i)) = IF N >= 1 THEN N - 1 ELSE 0
             /\ N = 0 => registeredBy(i) = {}
             /\ listed(i) = {h \in registeredBy(i) : ~stAll[h].killed}
             /\ Cardinality(listed(i)) = Len(instances[i].triggers)
             /\ destroyed[i] >= 1 => instances[i].triggers = <<>>

\* C30 witness: destroy() has returned on a StackingCards instance with
\* three cards: its two handles are killed and its list is empty
C30_Witness ==
    \E i \in DOMAIN instances :
        /\ Kind(i) = "StackingCards"
        /\ instances[i].container # NULL
        /\ Len(instances[i].cards) = 3
        /\ destroyed[i] >= 1
        /\ Cardinality(registeredBy(i)) = 2
        /\ instances[i].triggers = <<>>

\* a StackingCards instance that found its container
SC_bound(i) == Kind(i) = "StackingCards" /\ instances[i].container # NULL

\* every card of the StackingCards i has the top and the z-index init gave it
pinnedAtOffsets(i) ==
    \A k \in DOMAIN instances[i].cards :
        /\ <<instances[i].cards[k], "top">> \in DOMAIN style
        /\ style[<<instances[i].cards[k], "top">>]
              = instances[i].options.baseTop + (k - 1) * instances[i].options.staggerOffset
        /\ <<instances[i].cards[k], "zIndex">> \in DOMAIN style
        /\ style[<<instances[i].cards[k], "zIndex">>] = k

\* C31: from construction on, every card of a StackingCards instance has the
\* top baseTop + index * staggerOffset (and z-index index + 1), and a
\* progress update delivered to the instance, whatever its value and
\* whatever came before, changes no card's top and no card's z-index.
C31_TopsAreStatic ==
    /\ [](\A i \in DOMAIN instances : SC_bound(i) => pinnedAtOffsets(i))
    /\ [][\A c \in inflight :
            (inflight' = inflight \ {c} /\ Kind(stAll[c.h].owner) = "StackingCards") =>
                \A key \in DOMAIN style : key[2] \in {"top", "zIndex"} =>
                    (key \in DOMAIN style' /\ style'[key] = style[key])]_vars

\* C31 witness: a stack of three cards built with baseTop 10 and
\* staggerOffset 5 has received two updates, the last one scaling a card
\* down, and its cards are at 10, 15 and 20
C31_Witness ==
    \E i \in DOMAIN instances :
        /\ SC_bound(i)
        /\ Len(instances[i].cards) = 3
        /\ instances[i].options.baseTop = 10
        /\ cycle[i].fired = 2
        /\ lastOp.op = "onUpdate"
        /\ <<instances[i].cards[1], "transform">> \in DOMAIN style
        /\ style[<<instances[i].cards[1], "transform">>] < 1000
        /\ style[<<instances[i].cards[3], "top">>] = 20

\* the cubic ease-out 1 - (1 - t)^3, in thousandths
easeOut(t) == 1000 - ((1000 - t) * (1000 - t) * (1000 - t)) \div 1000000

\* the style the step leaves on the character v (a charData record) is the
\* one the eased value e gives: position vector * e, rotation tr * e,
\* scale 1 + (ts - 1) * e, opacity 1 - e
writtenAtEase(v, e) ==
    /\ style'[<<v.el, "transform">>]
          = <<(v.tx * e) \div 1000, (v.ty * e) \div 1000, (v.tr * e) \div 1000,
              1000 + ((v.ts - 1000) * e) \div 1000>>
    /\ style'[<<v.el, "opacity">>] = 1000 - e

\* C32: an update of a TextExplosion instance writes, for every character,
\* position = vector * e, rotation = tr * e, scale = 1 + (ts - 1) * e and
\* opacity = 1 - e with e = 1 - (1 - t)^3, t the character's staggered share
\* of the phase; the opacity is within [0, 1]; at phase 0 every character is
\* at the identity transform with opacity 1, and at phase 1 at its full
\* vector with opacity 0.
C32_EasedOutputs ==
    [][\A c \in inflight : \A i \in DOMAIN instances : \A p \in ProgressValues :
         updatesText(c, i, p) =>
            \A n \in DOMAIN instances[i].charData :
                LET v == instances[i].charData[n]
                    ph == phaseAt(instances[i].options.holdDuration,
                                  instances[i].options.explosionEnd, p)
                IN  /\ writtenAtEase(v, easeOut(effectiveT(ph, ((n - 1) % 20) * 10)))
                    /\ style'[<<v.el, "opacity">>] \in 0..1000
                    /\ ph = 0 =>
                          /\ style'[<<v.el, "transform">>] = <<0, 0, 0, 1000>>
                          /\ style'[<<v.el, "opacity">>] = 1000
                    /\ ph = 1000 =>
                          /\ style'[<<v.el, "transform">>] = <<v.tx, v.ty, v.tr, v.ts>>
                          /\ style'[<<v.el, "opacity">>] = 0]_vars

\* C32 witness: an instance with the default timeline was updated past the
\* end of the explosion: a character with a non-zero vector is at that
\* vector, invisible
C32_Witness ==
    /\ scenario = "TextExplosion"
    /\ lastOp.op = "onUpdate"
    /\ \E i \in DOMAIN instances :
          /\ Kind(i) = "TextExplosion" /\ instances[i].section # NULL
          /\ instances[i].options.holdDuration < instances[i].options.explosionEnd
          /\ \E n \in DOMAIN instances[i].charData :
                LET v == instances[i].charData[n] IN
                /\ v.tx # 0 /\ v.tr # 0
                /\ <<v.el, "transform">> \in DOMAIN style
                /\ style[<<v.el, "transform">>] = <<v.tx, v.ty, v.tr, v.ts>>
                /\ style[<<v.el, "opacity">>] = 0

\* a TextExplosion instance that found its section
TE_bound(i) == Kind(i) = "TextExplosion" /\ instances[i].section # NULL

\* where the centre of the span el lies from the centre of the content of
\* instance i: <<dx, dy>> in pixels
fromCentre(i, el) ==
    LET rect == getBoundingClientRect(World, instances[i].content)
        q == getBoundingClientRect(World, el)
    IN  <<(q.left + q.width \div 2) - (rect.left + rect.width \div 2),
          (q.top + q.height \div 2) - (rect.top + rect.height \div 2)>>

\* the square of the length of the stored vector v, in tenths of a pixel
lengthSquared(v) == (v.tx \div 100) * (v.tx \div 100) + (v.ty \div 100) * (v.ty \div 100)

\* C33 (as claimed): every vector a TextExplosion instance holds points
\* away from the content centre (a positive component along the
\* character's offset from the centre), has a length in [explosionDistance,
\* explosionDistance + explosionDistanceMax), a rotation in
\* [-rotationRange/2, rotationRange/2) and a scale in [scaleRange[0],
\* scaleRange[1]).
C33_VectorsInRange ==
    \A i \in DOMAIN instances : (TE_bound(i) /\ "charData" \in DOMAIN instances[i]) =>
        \A n \in DOMAIN instances[i].charData :
            LET v == instances[i].charData[n]
                o == instances[i].options
                d == fromCentre(i, v.el)
            IN  /\ d[1] * (v.tx \div 100) + d[2] * (v.ty \div 100) > 0
                /\ lengthSquared(v) >= (o.explosionDistance * 10) * (o.explosionDistance * 10)
                /\ lengthSquared(v) < ((o.explosionDistance + o.explosionDistanceMax) * 10)
                                        * ((o.explosionDistance + o.explosionDistanceMax) * 10)
                /\ v.tr >= 0 - o.rotationRange * 500
                /\ v.tr < o.rotationRange * 500
                /\ v.ts >= o.scaleRange[1]
                /\ v.ts < o.scaleRange[2]

\* the container of the ImageReveal i carries the class is-revealed
carriesRevealed(i) ==
    /\ instances[i].container # NULL
    /\ <<instances[i].container, "is-revealed">> \in classes

\* C34 (as claimed): in every reachable state the guard flag hasRevealed of
\* an ImageReveal instance is true exactly when its container carries the
\* class is-revealed.
C34_FlagMatchesClass ==
    \A i \in DOMAIN instances : Kind(i) = "ImageReveal" =>
        (IsTrue(instances[i], "hasRevealed") <=> carriesRevealed(i))

\* instance i is the page's one ParallaxReveal, it has a reveal target, it
\* is not destroyed, and its content's enter threshold has been crossed
PR_entered(i) ==
    /\ scenario = "ParallaxReveal"
    /\ DOMAIN instances = {i}
    /\ instances[i].content # NULL
    /\ instances[i].reveal # NULL
    /\ destroyed[i] = 0
    /\ crossings > 0

\* the reveal target of the ParallaxReveal i carries is-visible, or the
\* instance has been destroyed
PR_revealedOrDestroyed(i) ==
    /\ scenario = "ParallaxReveal"
    /\ i \in DOMAIN instances
    /\ instances[i].content # NULL
    /\ \/ destroyed[i] > 0
       \/ <<instances[i].reveal, "is-visible">> \in classes

\* C35 (as claimed): once the enter threshold of the content of a
\* ParallaxReveal with a reveal target has been crossed, the reveal target
\* eventually carries is-visible unless the instance is destroyed, whatever
\* the number of blocks, zero included.
C35_RevealEventuallyVisible == PR_entered(1) ~> PR_revealedOrDestroyed(1)

\* the Lenis instances made and not destroyed
liveLenis == {n \in 1..smooth.made : n \notin smooth.destroyedIds}

\* C36: at most one smooth-scroll instance is live, and lenisInstance is
\* that instance (null when none is); initSmoothScroll returns the live
\* instance without making another while there is one and otherwise makes
\* and returns a new one; getLenis returns the live instance, and null
\* after destroySmoothScroll.
C36_OneLiveInstance ==
    /\ [](/\ Cardinality(liveLenis) <= 1
          /\ liveLenis = IF smooth.lenisInstance = 0 THEN {} ELSE {smooth.lenisInstance})
    /\ [][(Call_initSmoothScroll =>
               /\ smooth'.ret = smooth'.lenisInstance
               /\ smooth'.ret # 0
               /\ IF smooth.lenisInstance # 0
                  THEN smooth'.ret = smooth.lenisInstance /\ smooth'.made = smooth.made
                  ELSE smooth'.ret \notin 1..smooth.made /\ smooth'.made = smooth.made + 1)
           /\ (Call_getLenis =>
                 smooth'.ret = IF liveLenis = {} THEN 0 ELSE smooth.lenisInstance)
           /\ (Call_destroySmoothScroll =>
                 /\ smooth'.lenisInstance = 0
                 /\ getLenis(smooth').ret = 0
                 /\ liveLenis' = {})]_vars

\* C36 witness: after a first instance was destroyed a second one was made,
\* and the last initSmoothScroll call returned that live second instance
\* without making a third
C36_Witness ==
    /\ lastOp.op = "initSmoothScroll"
    /\ smooth.made = 2
    /\ smooth.destroyedIds = {1}
    /\ smooth.lenisInstance = 2
    /\ smooth.ret = 2
    /\ smooth.ticker = 2

\* C37 (as claimed): the callbacks initSmoothScroll has on the ticker are
\* as many as the live smooth-scroll instances (0 or 1), no tick raises, and
\* a tick advances the live instance once.
C37_OneTickerPerLiveInstance ==
    /\ smooth.ticker = Cardinality(liveLenis)
    /\ ~smooth.tickThrew
    /\ lastOp.op = "tick" => smooth.advanced = Cardinality(liveLenis)

=============================================================================
